---- MODULE Spec2Model ----
(***************************************************************************)
(* Session layer of the PocketProfits finance bot (src/main.py,            *)
(* src/chat_handler.py, src/stock_analyzer.py, src/ai_analyst.py) and its  *)
(* market snapshot with the quote cache (src/data_handler.py).             *)
(*                                                                         *)
(* A handler is a coroutine: it runs without interruption from one await   *)
(* to the next.  A task record holds the handler's position (pc = the      *)
(* external call it is suspended on) and its locals.  One action of the    *)
(* model is "the awaited call returns and the handler runs on to its next  *)
(* await (or to its end)".  The market-data lookups are synchronous calls  *)
(* and so are part of the block that issues them.                          *)
(***************************************************************************)
EXTENDS Integers, Sequences, FiniteSets, TLC

\* ------------------------------------------------------------------ bounds
\* task slots of the dispatcher (Spec uses one at a time)
NSlots == 2
\* turns kept in a chat session's history
MaxHist == 2
\* length of a text typed as a ticker, when every text up to it is tried
MaxTextLen == 4
\* the last minute the clock reaches, and the minutes a batch request may take
MaxTime == 6
MaxTook == 1
\* reads of the quote cache kept in the history
MaxReads == 3

\* a narration text, when every text is tried: its pieces between a leading
\* run of LeadLen letters and a trailing run of TailLen letters
MaxBodyLen == 3
LeadLen == 3846
TailLen == 60

\* length of the long company name the market-data source may report
LongNameLen == 4400
\* lengths of a narration the language model may return, after sanitising
ShortBody == 1200
LongBody == 5000
\* length of an error description
ErrLen == 40

\* ------------------------------------------------------- program constants
TelegramLimit == 4096
TrimThreshold == 3900
TrimKeep == 3850
TrimMarkerLen == 25
TitlePrefixLen == 19

Users == {"u1", "u2"}
Slots == 1..NSlots

\* --------------------------------------------------------------- text model
\* A text is a sequence of one-character strings.
Lower == <<"a", "b", "n", "s", "o">>
Upper == <<"A", "B", "N", "S", "O">>
\* the whitespace str.strip() removes
IsSpace(c) == c \in {" ", "\t"}

RECURSIVE IndexIn(_, _, _)
IndexIn(c, alphabet, i) ==
  IF i > Len(alphabet) THEN 0
  ELSE IF alphabet[i] = c THEN i ELSE IndexIn(c, alphabet, i + 1)

\* str.upper(), one character
UpperChar(c) ==
  LET i == IndexIn(c, Lower, 1) IN IF i = 0 THEN c ELSE Upper[i]

\* str.upper()
ToUpper(s) == [i \in 1..Len(s) |-> UpperChar(s[i])]

RECURSIVE LStrip(_)
LStrip(s) ==
  IF s = <<>> THEN s ELSE IF IsSpace(Head(s)) THEN LStrip(Tail(s)) ELSE s

RECURSIVE RStrip(_)
RStrip(s) ==
  IF s = <<>> THEN s
  ELSE IF IsSpace(s[Len(s)]) THEN RStrip(SubSeq(s, 1, Len(s) - 1)) ELSE s

\* str.strip()
Strip(s) == RStrip(LStrip(s))

\* str.endswith(suffix)
EndsWith(s, suffix) ==
  /\ Len(s) >= Len(suffix)
  /\ SubSeq(s, Len(s) - Len(suffix) + 1, Len(s)) = suffix

\* "." in s
HasDot(s) == \E i \in 1..Len(s) : s[i] = "."

DotNS == <<".", "N", "S">>
DotBO == <<".", "B", "O">>

normalize_ticker_suffix_only(raw) ==
  LET t == ToUpper(Strip(raw)) IN
  IF ~EndsWith(t, DotNS) /\ ~EndsWith(t, DotBO)
  THEN t \o DotNS
  ELSE t

normalize_ticker_no_upper(raw) ==
  LET t == Strip(raw) IN
  IF ~EndsWith(t, DotNS) /\ ~EndsWith(t, DotBO) /\ ~HasDot(t)
  THEN t \o DotNS
  ELSE t

\* main.py 182-185: ticker.strip().upper(), then ".NS" appended unless the
\* symbol ends with .NS or .BO or holds a dot
normalize_ticker(raw) ==
  LET t == ToUpper(Strip(raw)) IN
  IF ~EndsWith(t, DotNS) /\ ~EndsWith(t, DotBO) /\ ~HasDot(t)
  THEN t \o DotNS
  ELSE t

\* free texts a user may type
RawTexts ==
  { <<"a">>, <<" ", "A", " ">>, <<"b", ".", "b", "o">> }

\* ------------------------------------------------------------------ values
\* a company's display name: only its identity and its length matter here
NoName == [id |-> "", len |-> 0]
AlphaName == [id |-> "Alpha Ltd", len |-> 9]
BetaName == [id |-> "Beta Holdings", len |-> LongNameLen]

\* info['longName'] as the market-data source reports it for a ticker
LongNameOf(ticker) == IF Head(ticker) = "A" THEN AlphaName ELSE BetaName

\* user_id not in user_stock_data
NoData == [present |-> FALSE, ticker |-> <<>>, name |-> NoName]
\* {'success': True, 'data': {'name': ..., 'ticker': ..., ...}}
StockData(ticker, name) == [present |-> TRUE, ticker |-> ticker, name |-> name]

\* user_id not in active_chats
NoChat == [open |-> FALSE, hist |-> <<>>]
\* {'chat': chat, 'personality': personality}
ChatEntry(hist) == [open |-> TRUE, hist |-> hist]

NoText == [kind |-> "", about |-> <<>>, len |-> 0, body |-> 0, trimmed |-> FALSE]
NoResult == [success |-> FALSE, has_id |-> FALSE, name |-> NoName, ticker |-> <<>>, blen |-> 0]

\* a message handed to the transport: its text (kind, the stock it names,
\* the slice lo..hi of the formatted text) and its inline keyboard
Msg(kind, ctl, about, lo, hi) ==
  [kind |-> kind, ctl |-> ctl, about |-> about, lo |-> lo, hi |-> hi]
Fixed(kind, ctl) == Msg(kind, ctl, <<>>, 0, 0)

\* ------------------------------------------------------------------- state
VARIABLES
  user_states,      \* main.py user_states: "analyze_mode" or "absent"
  user_stock_data,  \* main.py user_stock_data
  active_chats,     \* chat_handler.py active_chats
  tasks,            \* the handler coroutines, by dispatcher slot
  last_ok,          \* history: text and outcome of the last good step-1 fetch
  steps_done,       \* history: steps completed for the stored stock
  final_done,       \* history: final step completed, no step-1 fetch since
  market_cache,     \* data_handler.py _market_cache: data and last_updated
  now,              \* the wall clock, in minutes
  market_log,       \* history: the reads of the cache, the last stored snapshot
  process           \* the bot process: where main() is, and its environment

vars == <<user_states, user_stock_data, active_chats, tasks,
          last_ok, steps_done, final_done, market_cache, now, market_log,
          process>>

session == <<user_states, user_stock_data, active_chats>>
history == <<last_ok, steps_done, final_done>>
market == <<market_cache, now, market_log>>

Snapshot(u) ==
  [mode |-> user_states[u], data |-> user_stock_data[u], chat |-> active_chats[u]]

\* 'data': None, 'last_updated': None
NoQuotes == [set |-> FALSE, quotes |-> <<>>]
NoTime == [set |-> FALSE, at |-> 0]
EmptyCache == [data |-> NoQuotes, last_updated |-> NoTime]
NoMarketLog == [reads |-> <<>>, stored |-> NoQuotes]

\* {'error': ...} of get_top_movers
NoMovers ==
  [error |-> TRUE, gainers |-> <<>>, losers |-> <<>>,
   advances |-> 0, declines |-> 0, unchanged |-> 0]

\* config.py 8-10: the secrets read from the environment
Secrets == {"TELEGRAM_BOT_TOKEN", "GEMINI_API_KEY", "RAPID_API_KEY"}
\* main() has called application.run_polling() with every secret set
Polling == [pc |-> "polling", secrets |-> Secrets, log |-> <<>>]

IdleTask ==
  [kind |-> "idle", via |-> "", user |-> "u1", pc |-> "idle",
   raw |-> <<>>, ticker |-> <<>>, name |-> NoName,
   res |-> NoResult, text |-> NoText, ctl |-> <<>>, off |-> 0,
   chat |-> <<>>, live |-> FALSE,
   reads |-> <<>>, movers |-> NoMovers,
   sent |-> <<>>, fetches |-> 0, llm |-> 0,
   pre |-> [mode |-> "absent", data |-> NoData, chat |-> NoChat],
   route |-> "", missing |-> FALSE, fetch_failed |-> FALSE,
   narr_failed |-> FALSE, overlap |-> FALSE, after_final |-> FALSE,
   chat_failed |-> FALSE, prompt |-> [stock_name |-> "", ticker |-> <<>>],
   met |-> {},
   analysis |-> <<>>, stock_name |-> <<>>, message |-> <<>>]

NoFetch == [seen |-> FALSE, raw |-> <<>>]

Init ==
  /\ user_states = [u \in Users |-> "absent"]
  /\ user_stock_data = [u \in Users |-> NoData]
  /\ active_chats = [u \in Users |-> NoChat]
  /\ tasks = [s \in Slots |-> IdleTask]
  /\ last_ok = [u \in Users |-> NoFetch]
  /\ steps_done = [u \in Users |-> {}]
  /\ final_done = [u \in Users |-> FALSE]
  /\ market_cache = EmptyCache
  /\ now = 0
  /\ process = Polling
  /\ market_log = NoMarketLog

\* ------------------------------------------------------------ task helpers
\* a slot whose coroutine has returned (or raised) can take the next update
Free(s) == tasks[s].pc \in {"idle", "done", "raised"}
InFlight(s) == ~Free(s)

\* Application.builder().token(...).build(): updates are handled one at a
\* time, the next one only after the handler of the previous one returned
Sequential == \A s \in Slots : Free(s)

NewTask(kind, via, u) ==
  [IdleTask EXCEPT !.kind = kind, !.via = via, !.user = u,
                   !.pre = Snapshot(u), !.after_final = final_done[u],
                   !.overlap = \E x \in Slots : InFlight(x) /\ tasks[x].user = u,
                   !.met = {[kind |-> tasks[x].kind, route |-> tasks[x].route,
                             pc |-> tasks[x].pc] :
                              x \in {y \in Slots : InFlight(y) /\ tasks[y].user = u}}]

\* the dispatcher starts coroutine t in slot s
Launch(s, t) ==
  tasks' = [x \in Slots |->
              IF x = s THEN t
              ELSE IF InFlight(x) /\ tasks[x].user = t.user
                   THEN [tasks[x] EXCEPT !.overlap = TRUE]
                   ELSE tasks[x]]

Put(s, t) == tasks' = [tasks EXCEPT ![s] = t]

\* the entry of user u in active_chats is removed or replaced: a coroutine
\* that still holds the old chat object now holds an unrecorded one
Unlinked(tk, u) ==
  [x \in Slots |->
     IF tk[x].user = u /\ tk[x].live THEN [tk[x] EXCEPT !.live = FALSE]
     ELSE tk[x]]
Goto(t, pc) == [t EXCEPT !.pc = pc]
Delivered(t, m) == [t EXCEPT !.sent = Append(@, m)]
At(s, kind, pc) == tasks[s].kind = kind /\ tasks[s].pc = pc

MenuButtons == <<"markets", "chat", "analyze">>
BackButton == <<"back_to_menu">>

\* the awaits on the transport whose failure leaves the handler as an
\* exception (those of handle_chat_message's try block are handled there)
TransportPcs ==
  {"cb_answer", "answer2", "send_menu", "menu_answer", "send_prompt",
   "send_welcome", "welcome_answer", "send_please_start", "send_apology",
   "send_analyzing", "send_fetch_error", "send_generating", "send_step1",
   "send_missing", "send_fetching", "send_analyzing_ai", "send_result",
   "send_chunk", "send_final_wait", "send_market_wait", "send_market"}

\* a transport call raises: nothing in main.py catches it
transport_raises(s) ==
  /\ tasks[s].pc \in TransportPcs
  /\ Put(s, Goto(tasks[s], "raised"))
  /\ UNCHANGED <<session, history, market, process>>

\* ------------------------------------------------------- /start and the menu
\* CommandHandler("start", start): start() awaits update.message.reply_text
cmd_start(s, u) ==
  /\ Launch(s, Goto(NewTask("start", "command", u), "send_menu"))
  /\ UNCHANGED <<session, history, market, process>>

\* start(): the welcome text with the main menu was delivered
start_sent(s) ==
  /\ tasks[s].pc = "send_menu"
  /\ LET t == Delivered(tasks[s], Fixed("menu", MenuButtons)) IN
       Put(s, Goto(t, IF tasks[s].via = "button" THEN "menu_answer" ELSE "done"))
  /\ UNCHANGED <<session, history, market, process>>

\* start(): update.callback_query.answer() returned
start_answered(s) ==
  /\ tasks[s].pc = "menu_answer"
  /\ Put(s, Goto(tasks[s], "done"))
  /\ UNCHANGED <<session, history, market, process>>

\* ---------------------------------------------------------- button_callback
\* the buttons that reach the session tables ("markets" touches the quote
\* cache alone and is dispatched in SpecMarket)
ButtonData ==
  {"chat", "analyze", "ai_analysis_step2", "ai_analysis_step3",
   "final_analysis_step", "back_to_menu"}

\* CallbackQueryHandler(button_callback): awaits query.answer()
button_callback(s, u, data) ==
  /\ Launch(s, Goto(NewTask(data, "button", u), "cb_answer"))
  /\ UNCHANGED <<session, history, market, process>>

end_chat_session_keeps(chats, u) == chats

\* chat_handler.end_chat_session: the entry of the user is deleted if there
\* is one
end_chat_session(chats, u) ==
  IF chats[u].open THEN [chats EXCEPT ![u] = NoChat] ELSE chats

back_to_menu_keeps_data(s) ==
  /\ At(s, "back_to_menu", "cb_answer")
  /\ LET u == tasks[s].user IN
       /\ user_states' = [user_states EXCEPT ![u] = "absent"]
       /\ active_chats' = [active_chats EXCEPT ![u] = NoChat]
  /\ tasks' = Unlinked([tasks EXCEPT ![s] = Goto(tasks[s], "send_menu")],
                       tasks[s].user)
  /\ UNCHANGED <<user_stock_data, history, market, process>>

\* query.data == "back_to_menu": both tables and the chat session of the user
\* are cleared, then start() sends the menu
back_to_menu(s) ==
  /\ At(s, "back_to_menu", "cb_answer")
  /\ LET u == tasks[s].user IN
       /\ user_states' = [user_states EXCEPT ![u] = "absent"]
       /\ user_stock_data' = [user_stock_data EXCEPT ![u] = NoData]
       /\ active_chats' = end_chat_session(active_chats, u)
       /\ steps_done' = [steps_done EXCEPT ![u] = {}]
  /\ tasks' = Unlinked([tasks EXCEPT ![s] = Goto(tasks[s], "send_menu")],
                       tasks[s].user)
  /\ UNCHANGED <<last_ok, final_done, market, process>>

\* ----------------------------------------------------- analyze_stock_prompt
analyze_stock_prompt_clears_data(u) ==
  /\ user_states' = [user_states EXCEPT ![u] = "analyze_mode"]
  /\ user_stock_data' = [user_stock_data EXCEPT ![u] = NoData]
  /\ UNCHANGED <<active_chats, history, market, process>>

analyze_stock_prompt_ends_chat(u) ==
  /\ user_states' = [user_states EXCEPT ![u] = "analyze_mode"]
  /\ active_chats' = [active_chats EXCEPT ![u] = NoChat]
  /\ UNCHANGED <<user_stock_data, history, market, process>>

\* sets the mode of the user, then awaits the reply_text of the prompt
analyze_stock_prompt(u) ==
  /\ user_states' = [user_states EXCEPT ![u] = "analyze_mode"]
  /\ UNCHANGED <<user_stock_data, active_chats, history, market, process>>

\* CommandHandler("analyze", analyze_stock_prompt)
cmd_analyze(s, u) ==
  /\ analyze_stock_prompt(u)
  /\ Launch(s, Goto(NewTask("analyze", "command", u), "send_prompt"))

\* query.data == "analyze"
button_analyze(s) ==
  /\ At(s, "analyze", "cb_answer")
  /\ analyze_stock_prompt(tasks[s].user)
  /\ Put(s, Goto(tasks[s], "send_prompt"))

prompt_sent(s) ==
  /\ tasks[s].pc = "send_prompt"
  /\ Put(s, Goto(Delivered(tasks[s], Fixed("prompt", BackButton)), "done"))
  /\ UNCHANGED <<session, history, market, process>>

\* ------------------------------------------------------ start_chat_session
\* the old entry is deleted, model.start_chat(history=[]) makes a new chat
\* object, and the coroutine awaits the persona turn
start_chat_session(u) ==
  /\ active_chats' = [active_chats EXCEPT ![u] = NoChat]
  /\ UNCHANGED <<user_states, user_stock_data, history, market, process>>

\* CommandHandler("chat", start_chat_session)
cmd_chat(s, u) ==
  /\ start_chat_session(u)
  /\ LET t == Goto(NewTask("chat", "command", u), "persona_llm") IN
       tasks' = Unlinked([x \in Slots |->
                            IF x = s THEN t
                            ELSE IF InFlight(x) /\ tasks[x].user = u
                                 THEN [tasks[x] EXCEPT !.overlap = TRUE]
                                 ELSE tasks[x]], u)

\* query.data == "chat"
button_chat(s) ==
  /\ At(s, "chat", "cb_answer")
  /\ start_chat_session(tasks[s].user)
  /\ tasks' = Unlinked([tasks EXCEPT ![s] = Goto(tasks[s], "persona_llm")],
                       tasks[s].user)

\* chat.send_message_async(system_prompt) returned or raised (the error is
\* printed and dropped); the chat object is recorded either way
persona_returned_shared(s) ==
  /\ At(s, "chat", "persona_llm")
  /\ \E ok \in BOOLEAN :
       LET u == tasks[s].user
           hist == IF ok THEN <<"persona">> ELSE <<>>
           t == [tasks[s] EXCEPT !.chat = hist, !.llm = @ + 1,
                                 !.pc = "send_welcome"]
       IN  /\ active_chats' = [x \in Users |-> ChatEntry(hist)]
           /\ tasks' = Unlinked([tasks EXCEPT ![s] = t], u)
  /\ UNCHANGED <<user_states, user_stock_data, history, market, process>>

persona_returned(s) ==
  /\ At(s, "chat", "persona_llm")
  /\ \E ok \in BOOLEAN :
       LET u == tasks[s].user
           hist == IF ok THEN <<"persona">> ELSE <<>>
           t == [tasks[s] EXCEPT !.chat = hist, !.llm = @ + 1,
                                 !.pc = "send_welcome"]
       IN  /\ active_chats' = [active_chats EXCEPT ![u] = ChatEntry(hist)]
           /\ tasks' = Unlinked([tasks EXCEPT ![s] = t], u)
  /\ UNCHANGED <<user_states, user_stock_data, history, market, process>>

welcome_sent(s) ==
  /\ At(s, "chat", "send_welcome")
  /\ LET t == Delivered(tasks[s], Fixed("chat_welcome", BackButton)) IN
       Put(s, Goto(t, IF tasks[s].via = "button" THEN "welcome_answer" ELSE "done"))
  /\ UNCHANGED <<session, history, market, process>>

welcome_answered(s) ==
  /\ At(s, "chat", "welcome_answer")
  /\ Put(s, Goto(tasks[s], "done"))
  /\ UNCHANGED <<session, history, market, process>>

\* ------------------------------------------------------ handle_user_message
RouteOf_by_data(u) ==
  IF user_states[u] = "analyze_mode" \/ user_stock_data[u].present
  THEN "ticker" ELSE "chat"

\* main.py 168: the table of modes alone decides the destination
RouteOf(u) == IF user_states[u] = "analyze_mode" THEN "ticker" ELSE "chat"

\* MessageHandler(filters.TEXT & ~filters.COMMAND, handle_user_message):
\* handle_stock_analysis awaits its "please wait" reply; handle_chat_message
\* awaits the "start a chat first" reply or the typing action
handle_user_message(s, u, raw) ==
  /\ RouteOf(u) = "chat" /\ active_chats[u].open
        => Len(active_chats[u].hist) < MaxHist
  /\ LET t == [NewTask("text", "text", u) EXCEPT !.raw = raw, !.route = RouteOf(u)]
     IN  Launch(s, Goto(t, IF t.route = "ticker" THEN "send_analyzing"
                           ELSE IF active_chats[u].open THEN "chat_action"
                           ELSE "send_please_start"))
  /\ UNCHANGED <<session, history, market, process>>

\* ------------------------------------------------------- handle_chat_message
please_start_sent(s) ==
  /\ At(s, "text", "send_please_start")
  /\ Put(s, Goto(Delivered(tasks[s], Fixed("please_start_chat", <<>>)), "done"))
  /\ UNCHANGED <<session, history, market, process>>

\* send_chat_action returned; active_chats[user_id] is read (a KeyError when
\* the entry is gone) and the coroutine awaits chat.send_message_async
chat_action_returned(s) ==
  /\ At(s, "text", "chat_action")
  /\ \E ok \in BOOLEAN :
       LET u == tasks[s].user IN
       IF ok /\ active_chats[u].open
       THEN Put(s, [tasks[s] EXCEPT !.chat = active_chats[u].hist,
                                    !.live = TRUE, !.pc = "chat_llm"])
       ELSE Put(s, Goto(tasks[s], "send_apology"))
  /\ UNCHANGED <<session, history, market, process>>

chat_llm_returned_drops_session(s) ==
  /\ At(s, "text", "chat_llm")
  /\ \E ok \in BOOLEAN :
       LET u == tasks[s].user
           hist == Append(IF tasks[s].live THEN active_chats[u].hist
                          ELSE tasks[s].chat, "turn")
       IN
       IF ok
       THEN /\ Put(s, [tasks[s] EXCEPT !.chat = hist, !.llm = @ + 1,
                                       !.pc = "send_reply"])
            /\ active_chats' =
                 IF tasks[s].live
                 THEN [active_chats EXCEPT ![u] = ChatEntry(hist)]
                 ELSE active_chats
       ELSE /\ Put(s, [tasks[s] EXCEPT !.llm = @ + 1, !.chat_failed = TRUE,
                                       !.pc = "send_apology"])
            /\ active_chats' = [active_chats EXCEPT ![u] = NoChat]
  /\ UNCHANGED <<user_states, user_stock_data, history, market, process>>

\* the model answered (the turn joins the history of the chat object) or
\* the call raised
chat_llm_returned(s) ==
  /\ At(s, "text", "chat_llm")
  /\ \E ok \in BOOLEAN :
       LET u == tasks[s].user
           hist == Append(IF tasks[s].live THEN active_chats[u].hist
                          ELSE tasks[s].chat, "turn")
       IN
       IF ok
       THEN /\ Put(s, [tasks[s] EXCEPT !.chat = hist, !.llm = @ + 1,
                                       !.pc = "send_reply"])
            /\ active_chats' =
                 IF tasks[s].live
                 THEN [active_chats EXCEPT ![u] = ChatEntry(hist)]
                 ELSE active_chats
       ELSE /\ Put(s, [tasks[s] EXCEPT !.llm = @ + 1, !.chat_failed = TRUE,
                                       !.pc = "send_apology"])
            /\ UNCHANGED active_chats
  /\ UNCHANGED <<user_states, user_stock_data, history, market, process>>

\* the reply was delivered, or reply_text raised inside the try block
reply_returned(s) ==
  /\ At(s, "text", "send_reply")
  /\ \E ok \in BOOLEAN :
       IF ok
       THEN Put(s, Goto(Delivered(tasks[s], Fixed("chat_reply", BackButton)), "done"))
       ELSE Put(s, Goto(tasks[s], "send_apology"))
  /\ UNCHANGED <<session, history, market, process>>

apology_sent(s) ==
  /\ At(s, "text", "send_apology")
  /\ Put(s, Goto(Delivered(tasks[s], Fixed("apology", BackButton)), "done"))
  /\ UNCHANGED <<session, history, market, process>>

\* ---------------------------------------------------------- collaborators
\* what a market-data lookup may come to
AnalyzeOutcomes == {"ok", "not_found", "exception"}
FinancialsOutcomes == {"ok", "exception"}
\* what a narration call may come to: an exception, or a text whose
\* sanitised and padded body has blen characters
LlmOutcomes ==
  {[ok |-> FALSE, blen |-> 0]} \cup
  {[ok |-> TRUE, blen |-> b] :
     b \in {ShortBody, TrimThreshold, TrimThreshold + 1, LongBody}}

analyze_stock_partial(ticker, out) ==
  IF out = "not_found" THEN NoData ELSE StockData(ticker, LongNameOf(ticker))

\* stock_analyzer.analyze_stock: an error result, or the data under the
\* ticker it was asked for
analyze_stock(ticker, out) ==
  IF out = "ok" THEN StockData(ticker, LongNameOf(ticker)) ELSE NoData

\* what the text handed to generate_content_async says of the stock.  Steps
\* 1, 2 and 3 write name and ticker into it (ai_analyst.py 140-144, 190,
\* 224).  The final step calls str.format(stock_name=..., ticker=...) on its
\* template: a value lands in the text only where the template holds the
\* replacement field, and FINAL_SUMMARY_ANALYSIS_PROMPT holds none.
StepPromptFields == {"stock_name", "ticker"}
FINAL_SUMMARY_ANALYSIS_PROMPT == {}
format_prompt(fields, stock_name, ticker) ==
  [stock_name |-> IF "stock_name" \in fields THEN stock_name.id ELSE "",
   ticker |-> IF "ticker" \in fields THEN ticker ELSE <<>>]
PromptOf(t) ==
  format_prompt(IF t.kind = "final_analysis_step"
                THEN FINAL_SUMMARY_ANALYSIS_PROMPT ELSE StepPromptFields,
                t.name, t.ticker)

\* the narrators: the failure result of step 1 carries the error alone,
\* those of the other steps carry stock_name and ticker as well
get_step1_overview_analysis(name, ticker, out) ==
  IF out.ok
  THEN [success |-> TRUE, has_id |-> TRUE, name |-> name, ticker |-> ticker,
        blen |-> out.blen]
  ELSE NoResult

get_step2_financial_analysis(name, ticker, out) ==
  [success |-> out.ok, has_id |-> TRUE, name |-> name, ticker |-> ticker,
   blen |-> out.blen]

get_step3_financial_analysis(name, ticker, out) ==
  [success |-> out.ok, has_id |-> TRUE, name |-> name, ticker |-> ticker,
   blen |-> out.blen]

get_final_summary_analysis(name, ticker, out) ==
  [success |-> out.ok, has_id |-> TRUE, name |-> name, ticker |-> ticker,
   blen |-> out.blen]

\* ai_analyst.format_ai_analysis, as far as the session layer sees it: which
\* template, which stock the text names, and how long the text is
ErrorTemplateLen == 54
StockInfoLen == 8
TitleSuffixLen == 5

format_ai_analysis_anonymous(res) ==
  IF ~res.success
  THEN [kind |-> "ai_error", about |-> <<>>,
        len |-> ErrorTemplateLen + ErrLen, body |-> 0, trimmed |-> FALSE]
  ELSE LET trim == res.blen > TrimThreshold
           body == IF trim THEN TrimKeep + TrimMarkerLen ELSE res.blen
       IN  [kind |-> "ai_analysis",
            about |-> <<res.name.id, res.ticker>>,
            len |-> TitlePrefixLen + res.name.len + Len(res.ticker)
                    + TitleSuffixLen + body,
            body |-> body, trimmed |-> trim]

format_ai_analysis_trim_at(res) ==
  IF ~res.success
  THEN [kind |-> "ai_error",
        about |-> IF res.has_id THEN <<res.name.id, res.ticker>> ELSE <<>>,
        len |-> ErrorTemplateLen + ErrLen
                + (IF res.has_id
                   THEN StockInfoLen + res.name.len + Len(res.ticker) ELSE 0),
        body |-> 0, trimmed |-> FALSE]
  ELSE LET trim == res.blen >= TrimThreshold
           body == IF trim THEN TrimKeep + TrimMarkerLen ELSE res.blen
       IN  [kind |-> "ai_analysis",
            about |-> <<res.name.id, res.ticker>>,
            len |-> TitlePrefixLen + res.name.len + Len(res.ticker)
                    + TitleSuffixLen + body,
            body |-> body, trimmed |-> trim]

\* the text: the error template, or the title line followed by the body,
\* which is cut to TrimKeep characters and the marker when it is longer
\* than TrimThreshold
format_ai_analysis(res) ==
  IF ~res.success
  THEN [kind |-> "ai_error",
        about |-> IF res.has_id THEN <<res.name.id, res.ticker>> ELSE <<>>,
        len |-> ErrorTemplateLen + ErrLen
                + (IF res.has_id
                   THEN StockInfoLen + res.name.len + Len(res.ticker) ELSE 0),
        body |-> 0, trimmed |-> FALSE]
  ELSE LET trim == res.blen > TrimThreshold
           body == IF trim THEN TrimKeep + TrimMarkerLen ELSE res.blen
       IN  [kind |-> "ai_analysis",
            about |-> <<res.name.id, res.ticker>>,
            len |-> TitlePrefixLen + res.name.len + Len(res.ticker)
                    + TitleSuffixLen + body,
            body |-> body, trimmed |-> trim]

\* ------------------------------------------- format_ai_analysis, by character
\* A text is a sequence of pieces.  A piece is one character, or n characters
\* of one class written as one piece: a run of letters, a heading keyword,
\* the fixed parts of the title line, the trim marker.
Ch(c) == [c |-> c, n |-> 1]
Run(c, n) == [c |-> c, n |-> n]

\* len(text)
RECURSIVE TextLen(_)
TextLen(text) ==
  IF text = <<>> THEN 0 ELSE Head(text).n + TextLen(Tail(text))

\* one of headings_to_bold (ai_analyst.py 313-320)
Heading == Run("Summary:", 8)
\* \w at the first and at the last character of a piece
WordStart(p) == p.c \in {"x", "7", "_", "Summary:"}
WordEnd(p) == p.c \in {"x", "7", "_"}
\* what str.strip() removes
IsBlank(p) == p.c \in {" ", "\n"}

\* ai_analyst.py 301-305: backticks, asterisks and underscores are removed,
\* square brackets become round ones
sanitize(text) ==
  LET kept == SelectSeq(text, LAMBDA p : p.c \notin {"backtick", "*", "_"})
  IN  [i \in 1..Len(kept) |->
         IF kept[i].c = "[" THEN Ch("(")
         ELSE IF kept[i].c = "]" THEN Ch(")")
         ELSE kept[i]]

\* ai_analyst.py 308: re.sub of the number pattern by *\1*.  In a text with no
\* "." and no "," the pattern matches the runs of digits that have a word
\* boundary on both sides.
bold_numbers(text) ==
  LET IsDigit(p) == p.c = "7"
      \* the last digit of the run of digits that starts at i
      RECURSIVE DigitsEnd(_)
      DigitsEnd(i) ==
        IF i < Len(text) /\ IsDigit(text[i + 1]) THEN DigitsEnd(i + 1) ELSE i
      RECURSIVE From(_)
      From(i) ==
        IF i > Len(text) THEN <<>>
        ELSE IF IsDigit(text[i])
        THEN LET j == DigitsEnd(i)
                 run == SubSeq(text, i, j)
                 bounded == /\ (i = 1 \/ ~WordEnd(text[i - 1]))
                            /\ (j = Len(text) \/ ~WordStart(text[j + 1]))
             IN  (IF bounded THEN <<Ch("*")>> \o run \o <<Ch("*")>> ELSE run)
                   \o From(j + 1)
        ELSE <<text[i]>> \o From(i + 1)
  IN  From(1)

\* str.split('\n')
RECURSIVE split_lines(_)
split_lines(text) ==
  IF \E i \in 1..Len(text) : text[i].c = "\n"
  THEN LET k == CHOOSE i \in 1..Len(text) :
                  /\ text[i].c = "\n"
                  /\ \A h \in 1..(i - 1) : text[h].c # "\n"
       IN  <<SubSeq(text, 1, k - 1)>> \o split_lines(SubSeq(text, k + 1, Len(text)))
  ELSE <<text>>

\* "\n".join(lines)
RECURSIVE join_lines(_)
join_lines(lines) ==
  IF Len(lines) = 1 THEN lines[1]
  ELSE lines[1] \o <<Ch("\n")>> \o join_lines(Tail(lines))

\* str.strip()
strip_text(text) ==
  LET RECURSIVE strip_left(_)
      strip_left(t) ==
        IF t # <<>> /\ IsBlank(Head(t)) THEN strip_left(Tail(t)) ELSE t
      RECURSIVE strip_right(_)
      strip_right(t) ==
        IF t # <<>> /\ IsBlank(t[Len(t)])
        THEN strip_right(SubSeq(t, 1, Len(t) - 1))
        ELSE t
  IN  strip_right(strip_left(text))

\* ai_analyst.py 335: re.match(r"^\s*([\d\w]+[\.\)])\s+", stripped_line)
is_list_item(stripped_line) ==
  \E k \in 1..(Len(stripped_line) - 2) :
     /\ \A i \in 1..k : WordStart(stripped_line[i]) /\ WordEnd(stripped_line[i])
     /\ stripped_line[k + 1].c \in {".", ")"}
     /\ IsBlank(stripped_line[k + 2])

\* ai_analyst.py 322-340: a line that starts with a heading keyword, or that
\* is a list item, is replaced by its stripped text between two asterisks
process_line(line) ==
  LET stripped_line == strip_text(line) IN
  IF stripped_line = <<>> THEN line
  ELSE IF stripped_line[1] = Heading \/ is_list_item(stripped_line)
  THEN <<Ch("*")>> \o stripped_line \o <<Ch("*")>>
  ELSE line

\* "\n... (trimmed for length)"
TrimMarker == Run("... (trimmed for length)", TrimMarkerLen)

\* ai_analyst.py 348-349: text[:3850] and the marker
trim_text(text) ==
  LET RECURSIVE slice_to(_, _)
      slice_to(t, k) ==
        IF t = <<>> \/ k = 0 THEN <<>>
        ELSE IF Head(t).n <= k
        THEN <<Head(t)>> \o slice_to(Tail(t), k - Head(t).n)
        ELSE <<Run("x", k)>>
  IN  IF TextLen(text) > TrimThreshold
      THEN slice_to(text, TrimKeep) \o <<TrimMarker>>
      ELSE text

\* ai_analyst.py 355: the title line, with stock_name and ticker as they are
title_line(stock_name, ticker) ==
  <<Run("icon", 5), Ch("*"), Run("AI Analysis: ", 13)>>
    \o stock_name \o <<Ch(" "), Ch("(")>> \o ticker
    \o <<Ch(")"), Ch("*"), Ch("\n")>>

\* ai_analyst.py 297-357: the message built for a successful result
format_ai_analysis_text(analysis, stock_name, ticker) ==
  LET numbered == bold_numbers(sanitize(analysis))
      lines == split_lines(numbered)
      processed_lines == [i \in 1..Len(lines) |-> process_line(lines[i])]
      padded == <<Ch("\n")>> \o strip_text(join_lines(processed_lines))
                  \o <<Ch("\n")>>
  IN  title_line(stock_name, ticker) \o trim_text(padded)

Step2Buttons_and_step3 == <<"ai_analysis_step2", "ai_analysis_step3", "back_to_menu">>
Step2Buttons == <<"ai_analysis_step2", "back_to_menu">>
Step3Buttons == <<"ai_analysis_step3", "back_to_menu">>
FinalButtons == <<"final_analysis_step", "analyze", "back_to_menu">>
ThanksButtons == <<"back_to_menu">>

\* ---------------------------------------------------- handle_stock_analysis
IsError_never(analysis_result) == FALSE

\* 'error' in analysis_result
IsError(analysis_result) == ~analysis_result.present

\* the "please wait" reply was delivered: the text is normalised, the
\* fundamentals are looked up, and on success stored for the user
step1_fetch(s) ==
  /\ At(s, "text", "send_analyzing")
  /\ \E out \in AnalyzeOutcomes :
       LET u == tasks[s].user
           ticker == normalize_ticker(tasks[s].raw)
           analysis_result == analyze_stock(ticker, out)
           t == [Delivered(tasks[s], Fixed("analyzing", <<>>))
                   EXCEPT !.ticker = ticker, !.fetches = @ + 1]
       IN
       IF IsError(analysis_result)
       THEN /\ Put(s, [t EXCEPT !.fetch_failed = out # "ok", !.pc = "send_fetch_error"])
            /\ UNCHANGED <<session, history, market, process>>
       ELSE /\ user_stock_data' = [user_stock_data EXCEPT ![u] = analysis_result]
            /\ Put(s, [t EXCEPT !.name = analysis_result.name,
                                !.fetch_failed = out # "ok",
                                !.pc = "send_generating"])
            /\ last_ok' = IF out = "ok"
                          THEN [last_ok EXCEPT ![u] = [seen |-> TRUE, raw |-> tasks[s].raw]]
                          ELSE last_ok
            /\ steps_done' = [steps_done EXCEPT ![u] = {}]
            /\ final_done' = IF out = "ok"
                             THEN [final_done EXCEPT ![u] = FALSE]
                             ELSE final_done
            /\ UNCHANGED <<user_states, active_chats, market, process>>

\* the error of the lookup was delivered (no keyboard); the handler returns
step1_error_sent(s) ==
  /\ At(s, "text", "send_fetch_error")
  /\ Put(s, Goto(Delivered(tasks[s], Fixed("fetch_error", <<>>)), "done"))
  /\ UNCHANGED <<session, history, market, process>>

\* "Generating AI analysis" was delivered: the narration is awaited
step1_generating_sent(s) ==
  /\ At(s, "text", "send_generating")
  /\ Put(s, Goto(Delivered(tasks[s], Fixed("generating", <<>>)), "step_llm"))
  /\ UNCHANGED <<session, history, market, process>>

\* the narration returned: its result is formatted and sent with the step-2
\* keyboard
step1_narrated(s) ==
  /\ At(s, "text", "step_llm")
  /\ \E out \in LlmOutcomes :
       LET ai_result == get_step1_overview_analysis(tasks[s].name, tasks[s].ticker, out)
       IN  Put(s, [tasks[s] EXCEPT !.res = ai_result,
                                   !.text = format_ai_analysis(ai_result),
                                   !.ctl = Step2Buttons,
                                   !.llm = @ + 1,
                                   !.prompt = PromptOf(tasks[s]),
                                   !.narr_failed = ~ai_result.success,
                                   !.pc = "send_step1"])
  /\ UNCHANGED <<session, history, market, process>>

\* whether the stock a step worked on is still the one stored for the user
StillStored(t) ==
  /\ user_stock_data[t.user].present
  /\ user_stock_data[t.user].ticker = t.ticker

\* the formatted text was delivered as one message; the handler returns
step1_sent(s) ==
  /\ At(s, "text", "send_step1")
  /\ LET t == tasks[s]
         m == Msg(t.text.kind, t.ctl, t.text.about, 0, t.text.len)
     IN  /\ Put(s, Goto(Delivered(t, m), "done"))
         /\ steps_done' =
              IF ~t.narr_failed /\ StillStored(t)
              THEN [steps_done EXCEPT ![t.user] = @ \cup {1}]
              ELSE steps_done
  /\ UNCHANGED <<session, last_ok, final_done, market, process>>

\* ------------------------------------------------- steps 2, 3 and final
StepKinds == {"ai_analysis_step2", "ai_analysis_step3", "final_analysis_step"}

Min(a, b) == IF a < b THEN a ELSE b

\* the check that opens each step: the stock stored for the user, or the
\* "missing" reply with its keyboard
HasStockData_mode(u) == user_stock_data[u].present \/ user_states[u] = "analyze_mode"
HasStockData(u) == user_stock_data[u].present

Checked(s, missing_ctl, next_pc) ==
  LET u == tasks[s].user IN
  IF ~HasStockData(u)
  THEN Put(s, [tasks[s] EXCEPT !.missing = TRUE, !.ctl = missing_ctl,
                               !.pc = "send_missing"])
  ELSE Put(s, [tasks[s] EXCEPT !.ticker = user_stock_data[u].ticker,
                               !.name = user_stock_data[u].name,
                               !.pc = next_pc])

\* a narration returned: its result is formatted; a text above the limit of
\* one message goes out in slices of that size, any other as one message
Narrated(s, res, ctl) ==
  LET text == format_ai_analysis(res) IN
  Put(s, [tasks[s] EXCEPT !.res = res, !.text = text, !.ctl = ctl, !.off = 0,
                          !.llm = @ + 1, !.narr_failed = ~res.success,
                          !.prompt = PromptOf(tasks[s]),
                          !.pc = IF text.len > TelegramLimit
                                 THEN "send_chunk" ELSE "send_result"])

LastChunk(t) == t.off + TelegramLimit >= t.text.len
ChunkMsg_ctl_everywhere(t) ==
  Msg(t.text.kind, t.ctl, t.text.about,
      t.off, Min(t.off + TelegramLimit, t.text.len))
ChunkMsg(t) ==
  Msg(t.text.kind, IF LastChunk(t) THEN t.ctl ELSE <<>>, t.text.about,
      t.off, Min(t.off + TelegramLimit, t.text.len))
WholeMsg(t) == Msg(t.text.kind, t.ctl, t.text.about, 0, t.text.len)

\* one slice was delivered and another one follows
chunk_sent(s) ==
  /\ tasks[s].kind \in StepKinds
  /\ tasks[s].pc = "send_chunk"
  /\ ~LastChunk(tasks[s])
  /\ Put(s, [Delivered(tasks[s], ChunkMsg(tasks[s]))
               EXCEPT !.off = @ + TelegramLimit])
  /\ UNCHANGED <<session, history, market, process>>

\* the last message of a step's text
FinalMsg(t) == IF t.pc = "send_chunk" THEN ChunkMsg(t) ELSE WholeMsg(t)
AtLastSend(s, kind) ==
  /\ tasks[s].kind = kind
  /\ \/ tasks[s].pc = "send_result"
     \/ tasks[s].pc = "send_chunk" /\ LastChunk(tasks[s])

Completed(t, step) ==
  IF ~t.narr_failed /\ StillStored(t)
  THEN [steps_done EXCEPT ![t.user] = @ \cup {step}]
  ELSE steps_done

\* ------------------------------------------------ process_ai_analysis_step2
step2_check(s) ==
  /\ At(s, "ai_analysis_step2", "cb_answer")
  /\ Checked(s, <<"analyze">>, "send_fetching")
  /\ UNCHANGED <<session, history, market, process>>

step2_missing_sent(s) ==
  /\ At(s, "ai_analysis_step2", "send_missing")
  /\ Put(s, Goto(Delivered(tasks[s], Fixed("missing_context", tasks[s].ctl)), "done"))
  /\ UNCHANGED <<session, history, market, process>>

step2_fetch_retry(s) ==
  /\ At(s, "ai_analysis_step2", "send_fetching")
  /\ \E out \in FinancialsOutcomes, again \in FinancialsOutcomes :
       LET t == [Delivered(tasks[s], Fixed("fetching", <<>>))
                   EXCEPT !.fetches = @ + (IF out # "ok" THEN 2 ELSE 1)]
       IN  IF out # "ok" /\ again # "ok"
           THEN Put(s, [t EXCEPT !.fetch_failed = TRUE, !.pc = "send_fetch_error"])
           ELSE Put(s, Goto(t, "send_analyzing_ai"))
  /\ UNCHANGED <<session, history, market, process>>

\* "Fetching detailed financials" was delivered: get_detailed_financials
step2_fetch(s) ==
  /\ At(s, "ai_analysis_step2", "send_fetching")
  /\ \E out \in FinancialsOutcomes :
       LET t == [Delivered(tasks[s], Fixed("fetching", <<>>))
                   EXCEPT !.fetches = @ + 1]
       IN  IF out # "ok"
           THEN Put(s, [t EXCEPT !.fetch_failed = TRUE, !.pc = "send_fetch_error"])
           ELSE Put(s, Goto(t, "send_analyzing_ai"))
  /\ UNCHANGED <<session, history, market, process>>

step2_error_sent(s) ==
  /\ At(s, "ai_analysis_step2", "send_fetch_error")
  /\ Put(s, Goto(Delivered(tasks[s], Fixed("fetch_error", <<>>)), "done"))
  /\ UNCHANGED <<session, history, market, process>>

step2_analyzing_sent(s) ==
  /\ At(s, "ai_analysis_step2", "send_analyzing_ai")
  /\ Put(s, Goto(Delivered(tasks[s], Fixed("analyzing_ai", <<>>)), "step_llm"))
  /\ UNCHANGED <<session, history, market, process>>

step2_narrated_waits(s) ==
  /\ At(s, "ai_analysis_step2", "step_llm")
  /\ user_states[tasks[s].user] = "absent"
  /\ \E out \in LlmOutcomes :
       Narrated(s, get_step2_financial_analysis(tasks[s].name, tasks[s].ticker, out),
                Step3Buttons)
  /\ UNCHANGED <<session, history, market, process>>

step2_narrated(s) ==
  /\ At(s, "ai_analysis_step2", "step_llm")
  /\ \E out \in LlmOutcomes :
       Narrated(s, get_step2_financial_analysis(tasks[s].name, tasks[s].ticker, out),
                Step3Buttons)
  /\ UNCHANGED <<session, history, market, process>>

\* the last message went out: analyze_mode is dropped, the stock data kept
step2_sent(s) ==
  /\ AtLastSend(s, "ai_analysis_step2")
  /\ LET t == tasks[s] IN
       /\ Put(s, Goto(Delivered(t, FinalMsg(t)), "done"))
       /\ user_states' = [user_states EXCEPT ![t.user] = "absent"]
       /\ steps_done' = Completed(t, 2)
  /\ UNCHANGED <<user_stock_data, active_chats, last_ok, final_done, market, process>>

\* ------------------------------------------------ process_ai_analysis_step3
step3_answered(s) ==
  /\ At(s, "ai_analysis_step3", "cb_answer")
  /\ Put(s, Goto(tasks[s], "answer2"))
  /\ UNCHANGED <<session, history, market, process>>

step3_check(s) ==
  /\ At(s, "ai_analysis_step3", "answer2")
  /\ Checked(s, <<"analyze">>, "send_fetching")
  /\ UNCHANGED <<session, history, market, process>>

step3_missing_sent(s) ==
  /\ At(s, "ai_analysis_step3", "send_missing")
  /\ Put(s, Goto(Delivered(tasks[s], Fixed("missing_context", tasks[s].ctl)), "done"))
  /\ UNCHANGED <<session, history, market, process>>

step3_fetch_silent(s) ==
  /\ At(s, "ai_analysis_step3", "send_fetching")
  /\ \E out \in AnalyzeOutcomes :
       LET t == [Delivered(tasks[s], Fixed("fetching", <<>>))
                   EXCEPT !.fetches = @ + 1]
       IN  IF out # "ok"
           THEN Put(s, [t EXCEPT !.fetch_failed = TRUE, !.pc = "done"])
           ELSE Put(s, Goto(t, "send_analyzing_ai"))
  /\ UNCHANGED <<session, history, market, process>>

\* "Fetching Balance Sheet & Cash Flow" was delivered:
\* get_step3_financial_statements
step3_fetch(s) ==
  /\ At(s, "ai_analysis_step3", "send_fetching")
  /\ \E out \in AnalyzeOutcomes :
       LET t == [Delivered(tasks[s], Fixed("fetching", <<>>))
                   EXCEPT !.fetches = @ + 1]
       IN  IF out # "ok"
           THEN Put(s, [t EXCEPT !.fetch_failed = TRUE, !.pc = "send_fetch_error"])
           ELSE Put(s, Goto(t, "send_analyzing_ai"))
  /\ UNCHANGED <<session, history, market, process>>

step3_error_sent(s) ==
  /\ At(s, "ai_analysis_step3", "send_fetch_error")
  /\ Put(s, Goto(Delivered(tasks[s], Fixed("fetch_error", BackButton)), "done"))
  /\ UNCHANGED <<session, history, market, process>>

step3_analyzing_sent(s) ==
  /\ At(s, "ai_analysis_step3", "send_analyzing_ai")
  /\ Put(s, Goto(Delivered(tasks[s], Fixed("analyzing_ai", <<>>)), "step_llm"))
  /\ UNCHANGED <<session, history, market, process>>

\* the narrator is given the name the statement lookup reported
step3_narrated(s) ==
  /\ At(s, "ai_analysis_step3", "step_llm")
  /\ \E out \in LlmOutcomes :
       Narrated(s, get_step3_financial_analysis(LongNameOf(tasks[s].ticker),
                                                tasks[s].ticker, out),
                FinalButtons)
  /\ UNCHANGED <<session, history, market, process>>

step3_sent_clears_mode(s) ==
  /\ AtLastSend(s, "ai_analysis_step3")
  /\ LET t == tasks[s] IN
       /\ Put(s, Goto(Delivered(t, FinalMsg(t)), "done"))
       /\ user_states' = [user_states EXCEPT ![t.user] = "absent"]
       /\ steps_done' = Completed(t, 3)
  /\ UNCHANGED <<user_stock_data, active_chats, last_ok, final_done, market, process>>

step3_sent(s) ==
  /\ AtLastSend(s, "ai_analysis_step3")
  /\ LET t == tasks[s] IN
       /\ Put(s, Goto(Delivered(t, FinalMsg(t)), "done"))
       /\ steps_done' = Completed(t, 3)
  /\ UNCHANGED <<session, last_ok, final_done, market, process>>

\* ---------------------------------------------- process_final_analysis_step
final_answered(s) ==
  /\ At(s, "final_analysis_step", "cb_answer")
  /\ Put(s, Goto(tasks[s], "answer2"))
  /\ UNCHANGED <<session, history, market, process>>

final_check(s) ==
  /\ At(s, "final_analysis_step", "answer2")
  /\ Checked(s, <<"analyze", "back_to_menu">>, "send_final_wait")
  /\ UNCHANGED <<session, history, market, process>>

final_missing_sent(s) ==
  /\ At(s, "final_analysis_step", "send_missing")
  /\ Put(s, Goto(Delivered(tasks[s], Fixed("missing_context", tasks[s].ctl)), "done"))
  /\ UNCHANGED <<session, history, market, process>>

\* "Generating final AI summary" was delivered: no lookup, the narration
final_wait_sent(s) ==
  /\ At(s, "final_analysis_step", "send_final_wait")
  /\ Put(s, Goto(Delivered(tasks[s], Fixed("final_wait", <<>>)), "step_llm"))
  /\ UNCHANGED <<session, history, market, process>>

final_narrated(s) ==
  /\ At(s, "final_analysis_step", "step_llm")
  /\ \E out \in LlmOutcomes :
       Narrated(s, get_final_summary_analysis(tasks[s].name, tasks[s].ticker, out),
                ThanksButtons)
  /\ UNCHANGED <<session, history, market, process>>

final_sent_keeps_data(s) ==
  /\ AtLastSend(s, "final_analysis_step")
  /\ LET t == tasks[s] IN
       /\ Put(s, Goto(Delivered(t, FinalMsg(t)), "done"))
       /\ steps_done' = [steps_done EXCEPT ![t.user] = {}]
       /\ final_done' = [final_done EXCEPT ![t.user] = TRUE]
  /\ UNCHANGED <<session, last_ok, market, process>>

\* the last message went out: the stock data of the user is deleted
final_sent(s) ==
  /\ AtLastSend(s, "final_analysis_step")
  /\ LET t == tasks[s] IN
       /\ Put(s, Goto(Delivered(t, FinalMsg(t)), "done"))
       /\ user_stock_data' = [user_stock_data EXCEPT ![t.user] = NoData]
       /\ steps_done' = [steps_done EXCEPT ![t.user] = {}]
       /\ final_done' = [final_done EXCEPT ![t.user] = TRUE]
  /\ UNCHANGED <<user_states, active_chats, last_ok, market, process>>

\* ------------------------------------------------------------ quote cache
\* 'cache_duration': datetime.timedelta(minutes=5)
Ttl == 5
\* sorted_changes[:3], sorted_changes[-3:]
TopN == 3
\* change_percent > 0.1, < -0.1: in hundredths of a percent
BreadthThreshold == 10

\* config.py: INDICES['INDIA VIX'], INDICES['NIFTY 50'], and the head of
\* SENSEX_STOCKS
INDIA_VIX == "^INDIAVIX"
NIFTY_50 == "^NSEI"
SENSEX_STOCKS ==
  <<"RELIANCE.NS", "TCS.NS", "HDFCBANK.NS", "INFY.NS", "ICICIBANK.NS",
    "HINDUNILVR.NS">>

\* an entry of the snapshot: price, change_percent in hundredths, and the
\* 'volatility_level' key ("" while the entry has none)
Quote(price, pct) == [price |-> price, pct |-> pct, level |-> ""]

\* the quotes a batch request may bring
Day1 ==
  (INDIA_VIX :> Quote(12, 150)) @@ (NIFTY_50 :> Quote(100, 20))
  @@ ("RELIANCE.NS" :> Quote(10, 50)) @@ ("TCS.NS" :> Quote(20, -30))
Day2 == (INDIA_VIX :> Quote(30, -200)) @@ ("INFY.NS" :> Quote(5, 0))
Day3 == ("TCS.NS" :> Quote(21, 10))
Responses == {Day1, Day2, Day3}

\* what the batch request of a read at minute t may come to: an exception
\* (whose text holds the word 'error' or not) or a response, after some time
Upstream(t) ==
  LET took == 0..Min(MaxTook, MaxTime - t) IN
  {[ok |-> FALSE, quotes |-> <<>>, says_error |-> b, took |-> d] :
     b \in BOOLEAN, d \in took}
  \cup {[ok |-> TRUE, quotes |-> r, says_error |-> FALSE, took |-> d] :
          r \in Responses, d \in took}

\* data_handler.py 20-22
CacheValid(cache, t) ==
  /\ cache.data.set
  /\ cache.last_updated.set
  /\ t - cache.last_updated.at < Ttl

\* the batch request of a read at minute t, if the read issues one
NoRequest == [ok |-> FALSE, quotes |-> <<>>, says_error |-> FALSE, took |-> 0]
RequestOf(cache, t) == IF CacheValid(cache, t) THEN {NoRequest} ELSE Upstream(t)

get_cached_market_data_clearing(cache, t, up) ==
  IF CacheValid(cache, t)
  THEN [ret |-> cache.data, error |-> FALSE, cache |-> cache, t |-> t, req |-> 0]
  ELSE IF up.ok
  THEN LET result == [set |-> TRUE, quotes |-> up.quotes] IN
       [ret |-> result, error |-> FALSE,
        cache |-> [data |-> result,
                   last_updated |-> [set |-> TRUE, at |-> t + up.took]],
        t |-> t + up.took, req |-> 1]
  ELSE [ret |-> NoQuotes, error |-> TRUE, cache |-> EmptyCache,
        t |-> t + up.took, req |-> 1]

get_cached_market_data_merging(cache, t, up) ==
  IF CacheValid(cache, t)
  THEN [ret |-> cache.data, error |-> FALSE, cache |-> cache, t |-> t, req |-> 0]
  ELSE IF up.ok
  THEN LET result == [set |-> TRUE,
                      quotes |-> IF cache.data.set
                                 THEN up.quotes @@ cache.data.quotes
                                 ELSE up.quotes]
       IN
       [ret |-> result, error |-> FALSE,
        cache |-> [data |-> result,
                   last_updated |-> [set |-> TRUE, at |-> t + up.took]],
        t |-> t + up.took, req |-> 1]
  ELSE [ret |-> NoQuotes, error |-> TRUE, cache |-> cache,
        t |-> t + up.took, req |-> 1]

\* a read at minute t: the cached snapshot while it is younger than the TTL;
\* else one batch request, whose quotes become a new snapshot that is stored
\* with the time of its arrival and returned, or whose failure is returned
\* as {'error': ...} with the cache as it was.  The value: what is returned,
\* the cache and the clock after the read, the requests issued.
get_cached_market_data(cache, t, up) ==
  IF CacheValid(cache, t)
  THEN [ret |-> cache.data, error |-> FALSE, cache |-> cache, t |-> t, req |-> 0]
  ELSE IF up.ok
  THEN LET result == [set |-> TRUE, quotes |-> up.quotes] IN
       [ret |-> result, error |-> FALSE,
        cache |-> [data |-> result,
                   last_updated |-> [set |-> TRUE, at |-> t + up.took]],
        t |-> t + up.took, req |-> 1]
  ELSE [ret |-> NoQuotes, error |-> TRUE, cache |-> cache,
        t |-> t + up.took, req |-> 1]

\* config.py VIX_LEVELS
get_vix_level(vix_value) ==
  IF 0 <= vix_value /\ vix_value < 15 THEN "LOW"
  ELSE IF 15 <= vix_value /\ vix_value < 25 THEN "MODERATE"
  ELSE "HIGH"

\* get_market_overview, as far as the cache sees it: all_data is the dict
\* the cache holds, and data['volatility_level'] = ... writes into its entry
\* of INDIA VIX
get_market_overview(read) ==
  IF read.error \/ INDIA_VIX \notin DOMAIN read.ret.quotes
  THEN read.cache
  ELSE [read.cache EXCEPT !.data.quotes[INDIA_VIX].level =
                            get_vix_level(read.ret.quotes[INDIA_VIX].price)]

\* sorted(changes.items(), key=change_percent): stable, ascending
RECURSIVE Insert(_, _, _)
Insert(x, sorted, quotes) ==
  IF sorted = <<>> THEN <<x>>
  ELSE IF quotes[x].pct < quotes[Head(sorted)].pct THEN <<x>> \o sorted
  ELSE <<Head(sorted)>> \o Insert(x, Tail(sorted), quotes)

RECURSIVE sorted_changes(_, _)
sorted_changes(changes, quotes) ==
  IF changes = <<>> THEN <<>>
  ELSE Insert(changes[Len(changes)],
              sorted_changes(SubSeq(changes, 1, Len(changes) - 1), quotes),
              quotes)

Reverse(seq) == [i \in 1..Len(seq) |-> seq[Len(seq) + 1 - i]]
Max(a, b) == IF a > b THEN a ELSE b
\* the entries of the dict changes
Keys(changes) == {changes[i] : i \in 1..Len(changes)}

\* the constituents of SENSEX_STOCKS the snapshot holds, in the list's order
Present(quotes) == SelectSeq(SENSEX_STOCKS, LAMBDA stock : stock \in DOMAIN quotes)

get_top_movers_tail(read) ==
  IF read.error THEN NoMovers
  ELSE LET quotes == read.ret.quotes
           changes == Present(quotes)
           sorted == sorted_changes(changes, quotes)
           n == Len(sorted)
       IN  [error |-> FALSE,
            gainers |-> Reverse(SubSeq(sorted, Max(1, n - TopN), n)),
            losers |-> SubSeq(sorted, 1, Min(TopN, n)),
            advances |-> Cardinality({x \in Keys(changes) : quotes[x].pct > BreadthThreshold}),
            declines |-> Cardinality({x \in Keys(changes) : quotes[x].pct < -BreadthThreshold}),
            unchanged |-> Cardinality({x \in Keys(changes) :
                                  /\ ~(quotes[x].pct > BreadthThreshold)
                                  /\ ~(quotes[x].pct < -BreadthThreshold)})]

get_top_movers_inclusive(read) ==
  IF read.error THEN NoMovers
  ELSE LET quotes == read.ret.quotes
           changes == Present(quotes)
           sorted == sorted_changes(changes, quotes)
           n == Len(sorted)
       IN  [error |-> FALSE,
            gainers |-> Reverse(SubSeq(sorted, Max(1, n - TopN + 1), n)),
            losers |-> SubSeq(sorted, 1, Min(TopN, n)),
            advances |-> Cardinality({x \in Keys(changes) : quotes[x].pct >= BreadthThreshold}),
            declines |-> Cardinality({x \in Keys(changes) : quotes[x].pct < -BreadthThreshold}),
            unchanged |-> Cardinality({x \in Keys(changes) :
                                  /\ ~(quotes[x].pct >= BreadthThreshold)
                                  /\ ~(quotes[x].pct < -BreadthThreshold)})]

\* get_top_movers: the three lowest and the three highest of the constituents
\* present, and the counts of advances, declines and unchanged
get_top_movers(read) ==
  IF read.error THEN NoMovers
  ELSE LET quotes == read.ret.quotes
           changes == Present(quotes)
           sorted == sorted_changes(changes, quotes)
           n == Len(sorted)
       IN  [error |-> FALSE,
            gainers |-> Reverse(SubSeq(sorted, Max(1, n - TopN + 1), n)),
            losers |-> SubSeq(sorted, 1, Min(TopN, n)),
            advances |-> Cardinality({x \in Keys(changes) : quotes[x].pct > BreadthThreshold}),
            declines |-> Cardinality({x \in Keys(changes) : quotes[x].pct < -BreadthThreshold}),
            unchanged |-> Cardinality({x \in Keys(changes) :
                                  /\ ~(quotes[x].pct > BreadthThreshold)
                                  /\ ~(quotes[x].pct < -BreadthThreshold)})]

\* what the history keeps of one read
ReadOf(cache, t, up, read) ==
  [at |-> t, req |-> read.req, up_ok |-> up.ok, failed |-> read.error,
   expired |-> cache.data.set /\ ~CacheValid(cache, t),
   pre |-> cache, post |-> read.cache, ret |-> read.ret,
   quotes |-> IF read.req = 1 /\ ~read.error THEN up.quotes ELSE <<>>]
Brief(r) == [at |-> r.at, req |-> r.req, expired |-> r.expired]
Last(seq, n) == SubSeq(seq, Max(1, Len(seq) - n + 1), Len(seq))

\* format_market_message at minute t: get_market_overview and get_top_movers
\* read the cache one after the other; the report is dated with last_updated
\* (None.strftime raises without one), and an overview made of the error
\* text is reported only if that text holds 'error'
format_market_message(cache, t, up1, up2) ==
  LET read1 == get_cached_market_data(cache, t, up1)
      cache1 == get_market_overview(read1)
      read2 == get_cached_market_data(cache1, read1.t, up2)
      movers_data == get_top_movers(read2)
  IN  [cache |-> read2.cache, t |-> read2.t,
       reads |-> <<ReadOf(cache, t, up1, read1), ReadOf(cache1, read1.t, up2, read2)>>,
       movers |-> movers_data,
       kind |-> IF ~read2.cache.last_updated.set THEN "market_failure"
                ELSE IF read1.error /\ ~up1.says_error THEN "market_failure"
                ELSE "market_report"]

\* CommandHandler("markets", markets_command): awaits the "please wait" reply
cmd_markets(s, u) ==
  /\ Launch(s, Goto(NewTask("markets", "command", u), "send_market_wait"))
  /\ UNCHANGED <<session, history, market, process>>

\* query.data == "markets"
button_markets(s) ==
  /\ At(s, "markets", "cb_answer")
  /\ Put(s, Goto(tasks[s], "send_market_wait"))
  /\ UNCHANGED <<session, history, market, process>>

\* "Fetching latest market data" was delivered: format_market_message()
markets_wait_sent(s) ==
  /\ At(s, "markets", "send_market_wait")
  /\ \E up1 \in RequestOf(market_cache, now) :
       \E up2 \in LET read1 == get_cached_market_data(market_cache, now, up1)
                   IN  RequestOf(get_market_overview(read1), read1.t) :
         LET m == format_market_message(market_cache, now, up1, up2)
             t == Delivered(tasks[s], Fixed("market_wait", <<>>))
             fresh == {i \in 1..2 : m.reads[i].req = 1 /\ ~m.reads[i].failed}
         IN  /\ market_cache' = m.cache
             /\ now' = m.t
             /\ market_log' =
                  [reads |-> Last(market_log.reads
                                  \o <<Brief(m.reads[1]), Brief(m.reads[2])>>,
                                  MaxReads),
                   stored |-> IF fresh = {} THEN market_log.stored
                              ELSE m.reads[CHOOSE i \in fresh : TRUE].ret]
             /\ Put(s, [t EXCEPT !.reads = m.reads, !.movers = m.movers,
                                 !.text.kind = m.kind, !.pc = "send_market"])
  /\ UNCHANGED <<session, history, process>>

\* the report (or the text of the error) was delivered
markets_sent(s) ==
  /\ At(s, "markets", "send_market")
  /\ Put(s, Goto(Delivered(tasks[s], Fixed(tasks[s].text.kind, <<>>)), "done"))
  /\ UNCHANGED <<session, history, market, process>>

\* a minute passes
tick ==
  /\ now < MaxTime
  /\ now' = now + 1
  /\ UNCHANGED <<session, history, tasks, market_cache, market_log, process>>

\* ------------------------------------------------------------ specification
\* an update of user u arrives and its handler runs to its first await
Dispatch(s, u) ==
  \/ cmd_start(s, u)
  \/ cmd_analyze(s, u)
  \/ cmd_chat(s, u)
  \/ \E data \in ButtonData : button_callback(s, u, data)
  \/ \E raw \in RawTexts : handle_user_message(s, u, raw)

\* an awaited call returns and the handler runs on to its next await
Resume(s) ==
  \/ start_sent(s) \/ start_answered(s)
  \/ back_to_menu(s)
  \/ button_analyze(s) \/ prompt_sent(s)
  \/ button_chat(s) \/ persona_returned(s) \/ welcome_sent(s) \/ welcome_answered(s)
  \/ please_start_sent(s) \/ chat_action_returned(s) \/ chat_llm_returned(s)
  \/ reply_returned(s) \/ apology_sent(s)
  \/ step1_fetch(s) \/ step1_error_sent(s) \/ step1_generating_sent(s)
  \/ step1_narrated(s) \/ step1_sent(s)
  \/ chunk_sent(s)
  \/ step2_check(s) \/ step2_missing_sent(s) \/ step2_fetch(s)
  \/ step2_error_sent(s) \/ step2_analyzing_sent(s) \/ step2_narrated(s)
  \/ step2_sent(s)
  \/ step3_answered(s) \/ step3_check(s) \/ step3_missing_sent(s)
  \/ step3_fetch(s) \/ step3_error_sent(s) \/ step3_analyzing_sent(s)
  \/ step3_narrated(s) \/ step3_sent(s)
  \/ final_answered(s) \/ final_check(s) \/ final_missing_sent(s)
  \/ final_wait_sent(s) \/ final_narrated(s) \/ final_sent(s)

\* one user talks to the bot; the dispatcher handles one update at a time;
\* any call to the transport may raise
Next ==
  \/ Sequential /\ Dispatch(1, "u1")
  \/ \E s \in Slots : Resume(s)
  \/ \E s \in Slots : transport_raises(s)

Spec == Init /\ [][Next]_vars

\* every call a handler awaits returns or raises in the end: the event loop
\* resumes each suspended coroutine
SpecLive ==
  /\ Init /\ [][Next]_vars
  /\ \A s \in Slots : WF_vars(Resume(s) \/ transport_raises(s))

\* the same with a transport that delivers whatever main.py hands to it
\* (handle_chat_message still meets the failures its try block catches)
NextDelivered ==
  \/ Sequential /\ Dispatch(1, "u1")
  \/ \E s \in Slots : Resume(s)

SpecDelivered == Init /\ [][NextDelivered]_vars

\* ----------------------------------------------------- the market snapshot
\* the market handlers share no state with the session tables: one user asks
\* for the snapshot, by command or by button, while the clock runs
ResumeMarket(s) ==
  \/ button_markets(s) \/ markets_wait_sent(s) \/ markets_sent(s)

NextMarket ==
  \/ Sequential /\ cmd_markets(1, "u1")
  \/ Sequential /\ button_callback(1, "u1", "markets")
  \/ \E s \in Slots : ResumeMarket(s)
  \/ \E s \in Slots : transport_raises(s)
  \/ tick

SpecMarket == Init /\ [][NextMarket]_vars

\* ------------------------------------------------------- the movers alone
\* change_percent of a constituent, in hundredths: around the two thresholds
PctValues == {-11, -10, 0, 10, 11}
\* the snapshots that hold any of the constituents with any of these changes
Snapshots ==
  UNION {[present -> {Quote(1, pct) : pct \in PctValues}] :
           present \in SUBSET {SENSEX_STOCKS[i] : i \in 1..Len(SENSEX_STOCKS)}}

\* the cache holds a fresh snapshot, and markets_command awaits its "please
\* wait" reply
InitMovers ==
  /\ user_states = [u \in Users |-> "absent"]
  /\ user_stock_data = [u \in Users |-> NoData]
  /\ active_chats = [u \in Users |-> NoChat]
  /\ tasks = [s \in Slots |->
                IF s = 1
                THEN [IdleTask EXCEPT !.kind = "markets", !.via = "command",
                                      !.pc = "send_market_wait"]
                ELSE IdleTask]
  /\ last_ok = [u \in Users |-> NoFetch]
  /\ steps_done = [u \in Users |-> {}]
  /\ final_done = [u \in Users |-> FALSE]
  /\ \E quotes \in Snapshots :
       /\ market_cache = [data |-> [set |-> TRUE, quotes |-> quotes],
                          last_updated |-> [set |-> TRUE, at |-> 0]]
       /\ market_log = [reads |-> <<>>, stored |-> [set |-> TRUE, quotes |-> quotes]]
  /\ now = 0
  /\ process = Polling

\* the reply returns and the report is built from the cached snapshot
NextMovers == markets_wait_sent(1)

SpecMovers == InitMovers /\ [][NextMovers]_vars

\* ---------------------------------------------- ticker normalisation alone
\* the characters a typed ticker is made of
TextChars == {" ", "\t", "a", "B", ".", "n", "s", "o"}
Texts == UNION {[1..k -> TextChars] : k \in 0..MaxTextLen}

\* handle_user_message has routed a text of a user in analyze_mode to
\* handle_stock_analysis, which awaits its "please wait" reply
InitTicker ==
  /\ user_states = [u \in Users |-> IF u = "u1" THEN "analyze_mode" ELSE "absent"]
  /\ user_stock_data = [u \in Users |-> NoData]
  /\ active_chats = [u \in Users |-> NoChat]
  /\ \E raw \in Texts :
       tasks = [s \in Slots |->
                  IF s = 1
                  THEN [IdleTask EXCEPT !.kind = "text", !.via = "text",
                                        !.raw = raw, !.route = "ticker",
                                        !.pre.mode = "analyze_mode",
                                        !.pc = "send_analyzing"]
                  ELSE IdleTask]
  /\ last_ok = [u \in Users |-> NoFetch]
  /\ steps_done = [u \in Users |-> {}]
  /\ final_done = [u \in Users |-> FALSE]
  /\ market_cache = EmptyCache
  /\ now = 0
  /\ process = Polling
  /\ market_log = NoMarketLog

\* the reply returns: the text is normalised and looked up
NextTicker == step1_fetch(1)

SpecTicker == InitTicker /\ [][NextTicker]_vars

\* ------------------------------------------------------ the formatter alone
\* the characters a narration text is made of
BodyPieces ==
  {Ch("x"), Ch("7"), Ch(" "), Ch("\n"), Ch("*"), Ch("_"), Ch("backtick"),
   Ch("["), Ch("]"), Ch(")"), Heading}
\* response.text of the model: any short text, alone or between long runs
Analyses ==
  {lead \o body \o tail :
     lead \in {<<>>, <<Run("x", LeadLen)>>},
     body \in UNION {[1..k -> BodyPieces] : k \in 0..MaxBodyLen},
     tail \in {<<>>, <<Run("x", TailLen)>>}}
\* info['longName'] of the stock
StockNames == {<<Run("x", 9)>>, <<Ch("x"), Ch("_"), Ch("x")>>}

\* a narration has returned its text for the stored stock
InitFormat ==
  /\ user_states = [u \in Users |-> "absent"]
  /\ \E stock_name \in StockNames, analysis \in Analyses :
       LET ticker == normalize_ticker(<<"a">>) IN
       /\ user_stock_data =
            [u \in Users |-> IF u = "u1" THEN StockData(ticker, AlphaName) ELSE NoData]
       /\ tasks = [s \in Slots |->
                     IF s = 1
                     THEN [IdleTask EXCEPT !.kind = "ai_analysis_step2",
                                           !.via = "button",
                                           !.ticker = ticker,
                                           !.stock_name = stock_name,
                                           !.analysis = analysis,
                                           !.llm = 1,
                                           !.pc = "format_text"]
                     ELSE IdleTask]
  /\ active_chats = [u \in Users |-> NoChat]
  /\ last_ok = [u \in Users |-> NoFetch]
  /\ steps_done = [u \in Users |-> {}]
  /\ final_done = [u \in Users |-> FALSE]
  /\ market_cache = EmptyCache
  /\ now = 0
  /\ process = Polling
  /\ market_log = NoMarketLog

\* main.py 265: the handler formats the successful result
narration_formatted(s) ==
  LET t == tasks[s] IN
  /\ t.pc = "format_text"
  /\ Put(s, [Goto(t, "done") EXCEPT
               !.message = format_ai_analysis_text(
                             t.analysis, t.stock_name,
                             [i \in 1..Len(t.ticker) |-> Ch(t.ticker[i])])])
  /\ UNCHANGED <<session, history, market, process>>

NextFormat == narration_formatted(1)

SpecFormat == InitFormat /\ [][NextFormat]_vars

\* ------------------------------------------------- two handlers of one user
\* Two updates of one user are handled concurrently (an Application built
\* with concurrent_updates, or handlers registered with block=False): the
\* second handler starts while the first is suspended on an await.  Each
\* slot handles one update, from any state of the user's session.
InitRace ==
  /\ \E mode \in {"absent", "analyze_mode"},
        data \in {NoData, StockData(normalize_ticker(<<"a">>), AlphaName)},
        chat \in {NoChat, ChatEntry(<<"persona">>)} :
       /\ user_states = [u \in Users |-> IF u = "u1" THEN mode ELSE "absent"]
       /\ user_stock_data = [u \in Users |-> IF u = "u1" THEN data ELSE NoData]
       /\ active_chats = [u \in Users |-> IF u = "u1" THEN chat ELSE NoChat]
  /\ tasks = [s \in Slots |-> IdleTask]
  /\ last_ok = [u \in Users |-> NoFetch]
  /\ steps_done = [u \in Users |-> {}]
  /\ final_done = [u \in Users |-> FALSE]
  /\ market_cache = EmptyCache
  /\ now = 0
  /\ market_log = NoMarketLog
  /\ process = Polling

NextRace ==
  \/ \E s \in Slots : tasks[s].pc = "idle" /\ Dispatch(s, "u1")
  \/ \E s \in Slots : Resume(s)

SpecRace == InitRace /\ [][NextRace]_vars

\* ---------------------------------------------------- handlers of two users
\* One update of each user, handled with any interleaving of the two
\* handlers; the second user starts with every table entry present.
UserOf(s) == IF s = 1 THEN "u1" ELSE "u2"

InitUsers ==
  /\ \E mode \in {"absent", "analyze_mode"},
        data \in {NoData, StockData(normalize_ticker(<<"a">>), AlphaName)},
        chat \in {NoChat, ChatEntry(<<"persona">>)} :
       /\ user_states = [u \in Users |-> IF u = "u1" THEN mode ELSE "analyze_mode"]
       /\ user_stock_data =
            [u \in Users |-> IF u = "u1" THEN data
                             ELSE StockData(normalize_ticker(<<"b", ".", "b", "o">>),
                                            BetaName)]
       /\ active_chats = [u \in Users |-> IF u = "u1" THEN chat
                                          ELSE ChatEntry(<<"persona">>)]
  /\ tasks = [s \in Slots |-> [IdleTask EXCEPT !.user = UserOf(s)]]
  /\ last_ok = [u \in Users |-> NoFetch]
  /\ steps_done = [u \in Users |-> {}]
  /\ final_done = [u \in Users |-> FALSE]
  /\ market_cache = EmptyCache
  /\ now = 0
  /\ market_log = NoMarketLog
  /\ process = Polling

NextUsers ==
  \/ \E s \in Slots : tasks[s].pc = "idle" /\ Dispatch(s, UserOf(s))
  \/ \E s \in Slots : Resume(s)

SpecUsers == InitUsers /\ [][NextUsers]_vars

\* --------------------------------------------------------------- start-up
\* python main.py: the modules are imported.  config.py reads the three
\* variables with os.getenv and tests none of them; chat_handler.py and
\* ai_analyst.py hand the key to genai.configure, which may store a missing
\* key or refuse it with an exception that ends the process.
modules_imported ==
  /\ process.pc = "import"
  /\ \E refused \in BOOLEAN :
       process' =
         IF refused /\ "GEMINI_API_KEY" \notin process.secrets
         THEN [process EXCEPT !.pc = "exited", !.log = Append(@, "traceback")]
         ELSE [process EXCEPT !.pc = "main"]
  /\ UNCHANGED <<session, history, tasks, market>>

\* main(): the token is tested, the handlers are registered, and
\* run_polling() starts the receive loop
main ==
  /\ process.pc = "main"
  /\ process' =
       IF "TELEGRAM_BOT_TOKEN" \notin process.secrets
       THEN [process EXCEPT !.pc = "exited",
                            !.log = Append(@, "No Telegram bot token provided")]
       ELSE [process EXCEPT !.pc = "polling"]
  /\ UNCHANGED <<session, history, tasks, market>>

\* the process is started with any of the secrets set or missing
InitStartup ==
  /\ user_states = [u \in Users |-> "absent"]
  /\ user_stock_data = [u \in Users |-> NoData]
  /\ active_chats = [u \in Users |-> NoChat]
  /\ tasks = [s \in Slots |-> IdleTask]
  /\ last_ok = [u \in Users |-> NoFetch]
  /\ steps_done = [u \in Users |-> {}]
  /\ final_done = [u \in Users |-> FALSE]
  /\ market_cache = EmptyCache
  /\ now = 0
  /\ market_log = NoMarketLog
  /\ \E present \in SUBSET Secrets :
       process = [pc |-> "import", secrets |-> present, log |-> <<>>]

\* updates are received once the receive loop runs
NextStartup ==
  \/ modules_imported
  \/ main
  \/ process.pc = "polling" /\ Sequential /\ Dispatch(1, "u1")
  \/ \E s \in Slots : Resume(s)

SpecStartup == InitStartup /\ [][NextStartup]_vars

\* ------------------------------------------------------------------ claims
\* the handler in slot s has returned
Returned(s) == tasks[s].pc = "done"
\* nothing else of the same user ran while the handler in slot s did
Alone(s) == ~tasks[s].overlap
Kinds(m) == {m[i].kind : i \in 1..Len(m)}
Controls(m) == UNION {{m[i].ctl[j] : j \in 1..Len(m[i].ctl)} : i \in 1..Len(m)}
Has(seq, x) == \E i \in 1..Len(seq) : seq[i] = x

\* the normalisation the specification states: whitespace stripped, letters
\* upper-cased, ".NS" appended exactly when the symbol holds no "."
Normalized(raw) ==
  LET t == ToUpper(Strip(raw)) IN IF HasDot(t) THEN t ELSE t \o DotNS

\* C1: a step-2, step-3 or final handler dispatched for a user who has no
\* stock data makes no market-data lookup and no language-model call, leaves
\* the mode, the stock data and the chat session of the user as they were,
\* and when it returns it has delivered exactly the "missing" guidance with
\* the "analyze" control.
C1_MissingContextShortCircuits ==
  \A s \in Slots :
    LET t == tasks[s] IN
    t.kind \in StepKinds /\ ~t.pre.data.present /\ Alone(s)
    => /\ t.fetches = 0
       /\ t.llm = 0
       /\ Snapshot(t.user) = t.pre
       /\ t.pc \in {"cb_answer", "answer2", "send_missing", "done", "raised"}
       /\ Returned(s) =>
            /\ Len(t.sent) = 1
            /\ t.sent[1].kind = "missing_context"
            /\ Has(t.sent[1].ctl, "analyze")

\* C1 witness: a final action, after the stock data was stored and cleared,
\* has returned with the guidance message
C1_Witness ==
  \E s \in Slots :
    /\ tasks[s].kind = "final_analysis_step" /\ Returned(s)
    /\ ~tasks[s].pre.data.present
    /\ last_ok[tasks[s].user].seen

\* C2: a user has stock data only if a step-1 lookup of that user succeeded,
\* the stored ticker is the normalised text of the most recent lookup that
\* succeeded, and a handler whose lookup failed left the stock data as it was.
C2_StockContextFromLastGoodFetch ==
  /\ \A u \in Users :
       user_stock_data[u].present =>
         /\ last_ok[u].seen
         /\ user_stock_data[u].ticker = Normalized(last_ok[u].raw)
  /\ \A s \in Slots :
       tasks[s].kind = "text" /\ tasks[s].fetch_failed /\ Alone(s)
       => user_stock_data[tasks[s].user] = tasks[s].pre.data

\* C2 witness: a lookup failed while the stock of an earlier lookup is stored,
\* typed with blanks and in another case
C2_Witness ==
  \E s \in Slots :
    /\ tasks[s].kind = "text" /\ tasks[s].fetch_failed /\ Returned(s)
    /\ user_stock_data[tasks[s].user].present
    /\ last_ok[tasks[s].user].raw = <<" ", "A", " ">>
    /\ tasks[s].raw = <<"b", ".", "b", "o">>

\* C3: a back-to-menu handler that ran with no other handler of the user in
\* flight and returned leaves the user without mode, stock data and chat
\* session, and has delivered the main menu.
C3_BackToMenuClears ==
  \A s \in Slots :
    tasks[s].kind = "back_to_menu" /\ Returned(s) /\ Alone(s)
    => LET u == tasks[s].user IN
       /\ user_states[u] = "absent"
       /\ user_stock_data[u] = NoData
       /\ active_chats[u] = NoChat
       /\ Kinds(tasks[s].sent) = {"menu"}

\* C3 witness: back-to-menu returned for a user who awaited a ticker, had
\* stock data and a chat session
C3_Witness ==
  \E s \in Slots :
    /\ tasks[s].kind = "back_to_menu" /\ Returned(s)
    /\ tasks[s].pre.mode = "analyze_mode"
    /\ tasks[s].pre.data.present
    /\ tasks[s].pre.chat.open

\* the handlers of the four pipeline steps
IsStep1(t) == t.kind = "text" /\ t.route = "ticker"
IsPipeline(t) == IsStep1(t) \/ t.kind \in StepKinds
ForwardControls == {"ai_analysis_step2", "ai_analysis_step3", "final_analysis_step"}
\* the control that leads on from a step
NextControl(t) ==
  IF IsStep1(t) THEN {"ai_analysis_step2"}
  ELSE IF t.kind = "ai_analysis_step2" THEN {"ai_analysis_step3"}
  ELSE IF t.kind = "ai_analysis_step3" THEN {"final_analysis_step"}
  ELSE {}

\* C4: a pipeline handler whose lookup or narration failed has, when it
\* returns, reported the error, offered no control for the following step,
\* and left the user able to repeat the step (still awaiting a ticker in
\* step 1, the stock data still stored in the later steps).
C4_FailureDoesNotAdvance ==
  \A s \in Slots :
    LET t == tasks[s] IN
    IsPipeline(t) /\ Returned(s) /\ Alone(s) /\ (t.fetch_failed \/ t.narr_failed)
    => /\ Kinds(t.sent) \cap {"fetch_error", "ai_error"} # {}
       /\ NextControl(t) \cap Controls(t.sent) = {}
       /\ IF IsStep1(t) THEN user_states[t.user] = "analyze_mode"
          ELSE user_stock_data[t.user].present

\* C5: a narration of step 2, step 3 or the final step is awaited only when
\* the step before it has completed for the stored stock.
C5_StepsRunInOrder ==
  \A s \in Slots :
    LET t == tasks[s] IN
    t.kind \in StepKinds /\ t.pc = "step_llm" /\ Alone(s)
    => /\ t.kind = "ai_analysis_step2" => 1 \in steps_done[t.user]
       /\ t.kind = "ai_analysis_step3" => 2 \in steps_done[t.user]
       /\ t.kind = "final_analysis_step" => 3 \in steps_done[t.user]

\* C6: a step-1 handler whose lookup failed makes no language-model call and
\* leaves the user awaiting a ticker with mode, stock data and chat session
\* as they were; when it returns it has reported the error.
C6_ResolutionFailureKeepsState ==
  \A s \in Slots :
    LET t == tasks[s] IN
    IsStep1(t) /\ t.fetch_failed /\ Alone(s)
    => /\ t.llm = 0
       /\ user_states[t.user] = "analyze_mode"
       /\ Snapshot(t.user) = t.pre
       /\ t.pc \in {"send_fetch_error", "done", "raised"}
       /\ Returned(s) =>
            /\ Len(t.sent) = 2
            /\ t.sent[2].kind = "fetch_error"

\* C6 witness: the lookup failed for a user whose earlier stock is stored
C6_Witness ==
  \E s \in Slots :
    /\ IsStep1(tasks[s]) /\ tasks[s].fetch_failed /\ Returned(s)
    /\ tasks[s].pre.data.present
    /\ user_stock_data[tasks[s].user].present

\* C7: a step-1 handler whose lookup and narration both succeeded has, when
\* it returns, stored the data under the normalised ticker and delivered
\* exactly one analysis message: whole, titled with the name and the
\* normalised ticker, with step 2 as its only forward control.
C7_Step1Success ==
  \A s \in Slots :
    LET t == tasks[s]
        tk == Normalized(t.raw)
        shown == {i \in 1..Len(t.sent) : t.sent[i].kind \in {"ai_analysis", "ai_error"}}
    IN
    IsStep1(t) /\ Returned(s) /\ Alone(s) /\ ~t.fetch_failed /\ ~t.narr_failed
    => /\ user_stock_data[t.user] = StockData(tk, LongNameOf(tk))
       /\ Cardinality(shown) = 1
       /\ \A i \in shown :
            /\ t.sent[i].kind = "ai_analysis"
            /\ t.sent[i].about = <<LongNameOf(tk).id, tk>>
            /\ t.sent[i].lo = 0
            /\ t.sent[i].hi = t.text.len
            /\ {t.sent[i].ctl[j] : j \in 1..Len(t.sent[i].ctl)} \cap ForwardControls
                 = {"ai_analysis_step2"}

\* C7 witness: the text " A " was resolved and narrated
C7_Witness ==
  \E s \in Slots :
    /\ IsStep1(tasks[s]) /\ Returned(s)
    /\ ~tasks[s].fetch_failed /\ ~tasks[s].narr_failed
    /\ tasks[s].raw = <<" ", "A", " ">>

\* C8: once the final step has completed for a user and until a step-1
\* lookup succeeds again, the user has no stock data, and a step-2, step-3 or
\* final handler dispatched then makes no lookup and no narration and
\* delivers the "missing" guidance only.
C8_FinalStepClears ==
  /\ \A u \in Users : final_done[u] => ~user_stock_data[u].present
  /\ \A s \in Slots :
       LET t == tasks[s] IN
       t.kind \in StepKinds /\ t.after_final /\ Alone(s)
       => /\ t.fetches = 0
          /\ t.llm = 0
          /\ Returned(s) => Kinds(t.sent) = {"missing_context"}

\* C8 witness: a step-2 action after the final step has returned
C8_Witness ==
  \E s \in Slots :
    /\ tasks[s].kind = "ai_analysis_step2" /\ tasks[s].after_final
    /\ Returned(s)

\* C9: a handler that has shown the main menu, for the back-to-menu control
\* or for the start command, leaves the user without stock data.
C9_MenuShownClears ==
  \A s \in Slots :
    LET t == tasks[s] IN
    t.kind \in {"start", "back_to_menu"} /\ Returned(s) /\ Alone(s)
      /\ "menu" \in Kinds(t.sent)
    => ~user_stock_data[t.user].present

TickerPcs ==
  {"send_analyzing", "send_fetch_error", "send_generating", "step_llm",
   "send_step1", "done", "raised"}
ChatPcs ==
  {"send_please_start", "chat_action", "chat_llm", "send_reply",
   "send_apology", "done", "raised"}

\* C10: a free text goes to ticker resolution exactly when the mode of the
\* user was analyze_mode on arrival and to the chat handler otherwise; the
\* handler stays within the one destination, and when it returns it has
\* answered.
C10_TextRoutedByMode ==
  \A s \in Slots :
    LET t == tasks[s] IN
    t.kind = "text"
    => /\ t.route = IF t.pre.mode = "analyze_mode" THEN "ticker" ELSE "chat"
       /\ t.route = "ticker" =>
            /\ t.pc \in TickerPcs
            /\ Kinds(t.sent) \subseteq
                 {"analyzing", "fetch_error", "generating", "ai_analysis", "ai_error"}
       /\ t.route = "chat" =>
            /\ t.pc \in ChatPcs
            /\ t.fetches = 0
            /\ Kinds(t.sent) \subseteq {"please_start_chat", "chat_reply", "apology"}
       /\ Returned(s) => Len(t.sent) >= 1

\* C10 witness: a text went to the chat handler although stock data was stored
C10_Witness ==
  \E s \in Slots :
    /\ tasks[s].kind = "text" /\ tasks[s].route = "chat" /\ Returned(s)
    /\ tasks[s].pre.data.present
    /\ tasks[s].pre.chat.open

\* C11: the ticker handle_stock_analysis looks up is the typed text with the
\* surrounding whitespace stripped and the letters upper-cased, followed by
\* ".NS" exactly when that symbol holds no "."; a symbol that holds a "." is
\* looked up as it is.
C11_TickerNormalization ==
  \A s \in Slots :
    LET t == tasks[s]
        symbol == ToUpper(Strip(t.raw))
    IN
    IsStep1(t) /\ t.fetches > 0
    => /\ ~HasDot(symbol) => t.ticker = symbol \o DotNS
       /\ HasDot(symbol) => t.ticker = symbol
       /\ (t.ticker = symbol \o DotNS) <=> ~HasDot(symbol)

\* C11 witness: a text with a tab in front and a suffix that is neither .NS
\* nor .BO was looked up with no suffix appended
C11_Witness ==
  \E s \in Slots :
    /\ IsStep1(tasks[s]) /\ tasks[s].fetches > 0
    /\ tasks[s].raw = <<"\t", "a", ".", "B">>
    /\ tasks[s].ticker = <<"A", ".", "B">>

\* the reads of the quote cache a handler has made
ReadsOf(s) == {tasks[s].reads[i] : i \in 1..Len(tasks[s].reads)}

\* C12: of any two reads of the quote cache less than the TTL apart at most
\* one issues a batch request, whatever became of the first; a read that
\* finds the snapshot expired issues exactly one.
C12_OneRequestPerTtlWindow ==
  LET r == market_log.reads IN
  /\ \A i, j \in 1..Len(r) :
       i < j /\ r[j].at - r[i].at < Ttl => r[i].req + r[j].req <= 1
  /\ \A i \in 1..Len(r) : r[i].expired => r[i].req = 1

\* C13: a read whose batch request failed returns the error value and
\* leaves data and last_updated of the cache as they were before the read.
C13_FailedRefreshKeepsCache ==
  \A s \in Slots : \A r \in ReadsOf(s) :
    r.req = 1 /\ ~r.up_ok
    => /\ r.failed
       /\ r.ret = NoQuotes
       /\ r.post = r.pre
       /\ tasks[s].pc \in {"send_market", "done", "raised"}

\* C13 witness: the request of a read that found an expired snapshot failed
C13_Witness ==
  \E s \in Slots : \E r \in ReadsOf(s) :
    /\ r.req = 1 /\ ~r.up_ok
    /\ r.expired /\ r.pre.data.set

\* C14: data and last_updated of the cache are set together, and a read
\* whose batch request succeeded leaves in the cache exactly the snapshot it
\* returns: the quotes of the response and nothing of the snapshot before.
C14_CacheReplacedAtomically ==
  /\ market_cache.data.set <=> market_cache.last_updated.set
  /\ \A s \in Slots : \A r \in ReadsOf(s) :
       /\ r.post.data.set <=> r.post.last_updated.set
       /\ r.req = 1 /\ r.up_ok
          => /\ ~r.failed
             /\ r.post.data = r.ret
             /\ r.ret.set
             /\ r.ret.quotes = r.quotes
             /\ r.post.last_updated.set

\* C14 witness: a refresh replaced a snapshot that held a symbol the new
\* response does not hold
C14_Witness ==
  \E s \in Slots : \E r \in ReadsOf(s) :
    /\ r.req = 1 /\ r.up_ok
    /\ r.pre.data.set
    /\ NIFTY_50 \in DOMAIN r.pre.data.quotes
    /\ NIFTY_50 \notin DOMAIN r.quotes
    /\ market_cache = r.post

\* C15: whenever the cache holds a snapshot, every entry of it is as the
\* last successful refresh stored it: building the report changes none.
C15_ReportLeavesSnapshot ==
  market_cache.data.set => market_cache.data = market_log.stored

\* the constituents a list of movers names, and the change of one
Named(list) == {list[i] : i \in 1..Len(list)}
PctOf(x) == market_cache.data.quotes[x].pct
Constituents ==
  {x \in {SENSEX_STOCKS[i] : i \in 1..Len(SENSEX_STOCKS)} :
     x \in DOMAIN market_cache.data.quotes}
Reported(s) == tasks[s].kind = "markets" /\ ~tasks[s].movers.error

\* C16: the losers are the three constituents of the snapshot with the
\* lowest change, lowest first, the gainers the three with the highest,
\* highest first (all of them when fewer than three are present); with six
\* or more constituents present no symbol is in both lists.
C16_MoversRanking ==
  \A s \in Slots :
    Reported(s) =>
      LET L == tasks[s].movers.losers
          G == tasks[s].movers.gainers
          n == Cardinality(Constituents)
      IN  /\ Len(L) = Min(TopN, n) /\ Cardinality(Named(L)) = Len(L)
          /\ Len(G) = Min(TopN, n) /\ Cardinality(Named(G)) = Len(G)
          /\ Named(L) \subseteq Constituents
          /\ Named(G) \subseteq Constituents
          /\ \A i, j \in 1..Len(L) : i < j => PctOf(L[i]) <= PctOf(L[j])
          /\ \A i, j \in 1..Len(G) : i < j => PctOf(G[i]) >= PctOf(G[j])
          /\ \A x \in Constituents \ Named(L) :
               \A y \in Named(L) : PctOf(y) <= PctOf(x)
          /\ \A x \in Constituents \ Named(G) :
               \A y \in Named(G) : PctOf(y) >= PctOf(x)
          /\ n >= 2 * TopN => Named(L) \cap Named(G) = {}

\* C16 witness: six constituents, the third loser tied with one left out
C16_Witness ==
  \E s \in Slots :
    /\ Reported(s)
    /\ Cardinality(Constituents) = Len(SENSEX_STOCKS)
    /\ Len(tasks[s].movers.losers) = TopN
    /\ \E x \in Constituents \ Named(tasks[s].movers.losers) :
         PctOf(x) = PctOf(tasks[s].movers.losers[TopN])
    /\ PctOf(tasks[s].movers.gainers[1]) > PctOf(tasks[s].movers.gainers[TopN])

\* C17: a constituent is an advance exactly when its change is above +0.1,
\* a decline exactly when it is below -0.1, unchanged otherwise; the three
\* counts add up to the constituents present.
C17_BreadthCounts ==
  \A s \in Slots :
    Reported(s) =>
      LET m == tasks[s].movers IN
      /\ m.advances = Cardinality({x \in Constituents : PctOf(x) > BreadthThreshold})
      /\ m.declines = Cardinality({x \in Constituents : PctOf(x) < -BreadthThreshold})
      /\ m.unchanged =
           Cardinality({x \in Constituents :
                          /\ PctOf(x) >= -BreadthThreshold
                          /\ PctOf(x) <= BreadthThreshold})
      /\ m.advances + m.declines + m.unchanged = Cardinality(Constituents)

\* C17 witness: changes of exactly +0.1 and -0.1 were counted as unchanged
\* beside an advance and a decline
C17_Witness ==
  \E s \in Slots :
    /\ Reported(s)
    /\ \E x, y \in Constituents :
         PctOf(x) = BreadthThreshold /\ PctOf(y) = -BreadthThreshold
    /\ tasks[s].movers.unchanged = 2
    /\ tasks[s].movers.advances = 1
    /\ tasks[s].movers.declines = 1

\* the messages of a handler that carry the formatted text, in order
Shown(t) == SelectSeq(t.sent, LAMBDA m : m.kind \in {"ai_analysis", "ai_error"})
Ceil(a, b) == (a + b - 1) \div b
\* the messages a text of length L goes out in
Pieces(L) == IF L > TelegramLimit THEN Ceil(L, TelegramLimit) ELSE 1
\* the keyboard that leads on from a step
NextStepButtons(kind) ==
  IF kind = "ai_analysis_step2" THEN Step3Buttons
  ELSE IF kind = "ai_analysis_step3" THEN FinalButtons
  ELSE ThanksButtons

\* C18: the formatted text of step 2, step 3 or the final step, of length
\* L, goes out as the slices [0, 4096), [4096, 8192), ... of the text in
\* this order when L > 4096 and as one message otherwise; the message that
\* ends the text carries the keyboard of the step and no other message
\* does; a handler that has returned has sent ceil(L / 4096) messages, or
\* one.
C18_ChunkedDelivery ==
  \A s \in Slots :
    LET t == tasks[s]
        L == t.text.len
        shown == Shown(t)
    IN
    t.kind \in StepKinds /\ t.text.kind # ""
    => /\ \A k \in 1..Len(shown) :
            /\ shown[k].lo = (k - 1) * TelegramLimit
            /\ shown[k].hi = IF L > TelegramLimit
                             THEN Min(k * TelegramLimit, L) ELSE L
            /\ shown[k].ctl = IF shown[k].hi = L
                              THEN NextStepButtons(t.kind) ELSE <<>>
       /\ Len(shown) <= Pieces(L)
       /\ Returned(s) => Len(shown) = Pieces(L)

\* C18 witness: a step-3 text went out in three messages
C18_Witness ==
  \E s \in Slots :
    /\ tasks[s].kind = "ai_analysis_step3" /\ Returned(s)
    /\ tasks[s].text.len > 2 * TelegramLimit
    /\ Len(Shown(tasks[s])) = 3
    /\ Shown(tasks[s])[3].ctl = FinalButtons

\* C19: no message with the formatted text that one of the four steps hands
\* to the transport is longer than 4096 characters.
C19_NoMessageAboveLimit ==
  \A s \in Slots :
    LET t == tasks[s] IN
    IsPipeline(t)
    => /\ \A m \in {Shown(t)[i] : i \in 1..Len(Shown(t))} :
            m.hi - m.lo <= TelegramLimit
       /\ t.pc \in {"send_step1", "send_result"} => t.text.len <= TelegramLimit
       /\ t.pc = "send_chunk" => ChunkMsg(t).hi - ChunkMsg(t).lo <= TelegramLimit

\* C20: in the text of a successful result the body after the title line
\* has at most 3900 characters: a body of more than 3900 is cut to its
\* first 3850 and the marker, a body of at most 3900 is left whole.
C20_FormatterCeiling ==
  \A s \in Slots :
    LET t == tasks[s] IN
    IsPipeline(t) /\ t.text.kind # "" /\ t.res.success
    => /\ t.text.kind = "ai_analysis"
       /\ t.text.body <= TrimThreshold
       /\ t.res.blen > TrimThreshold
            => t.text.trimmed /\ t.text.body = TrimKeep + TrimMarkerLen
       /\ t.res.blen <= TrimThreshold
            => ~t.text.trimmed /\ t.text.body = t.res.blen
       /\ t.text.len = TitlePrefixLen + t.res.name.len + Len(t.res.ticker)
                       + TitleSuffixLen + t.text.body

\* C20 witness: a body of exactly 3900 characters was left whole
C20_Witness ==
  \E s \in Slots :
    /\ IsPipeline(tasks[s]) /\ tasks[s].res.success
    /\ tasks[s].res.blen = TrimThreshold
    /\ tasks[s].text.body = TrimThreshold
    /\ ~tasks[s].text.trimmed

\* the characters of a text, and the asterisks among them
Classes(text) == {text[i].c : i \in 1..Len(text)}
Stars(text) == Len(SelectSeq(text, LAMBDA p : p.c = "*"))
Formatted(s) == tasks[s].pc = "done" /\ tasks[s].message # <<>>

\* C21: the formatter's output for a successful result, of any text length
\* and any stock name, holds no backtick, no underscore and no square
\* bracket, and an even number of asterisks.
C21_MarkupSafety ==
  \A s \in Slots :
     Formatted(s) =>
       /\ Classes(tasks[s].message) \cap {"backtick", "_", "[", "]"} = {}
       /\ Stars(tasks[s].message) % 2 = 0

\* C22: a narration of step 1, 2, 3 or the final step that failed returns a
\* result tagged as failure that carries the name and the ticker of the
\* stock the function was given.
C22_FailureResultNamesStock ==
  \A s \in Slots :
    LET t == tasks[s] IN
    IsPipeline(t) /\ t.narr_failed
    => /\ ~t.res.success
       /\ t.res.has_id
       /\ t.res.name = t.name
       /\ t.res.ticker = t.ticker

\* C23: for a failure result the formatter returns the error template with
\* the error description, and neither title nor body; the template names
\* the stock name and the ticker exactly when the result carries them.
C23_ErrorTemplate ==
  \A s \in Slots :
    LET t == tasks[s] IN
    IsPipeline(t) /\ t.text.kind # "" /\ ~t.res.success
    => /\ t.text.kind = "ai_error"
       /\ t.text.body = 0 /\ ~t.text.trimmed
       /\ t.text.about = IF t.res.has_id
                         THEN <<t.res.name.id, t.res.ticker>> ELSE <<>>
       /\ t.text.len = ErrorTemplateLen + ErrLen
                       + (IF t.res.has_id
                          THEN StockInfoLen + t.res.name.len + Len(t.res.ticker)
                          ELSE 0)
       /\ \A i \in 1..Len(t.sent) :
             /\ t.sent[i].kind # "ai_analysis"
             /\ t.sent[i].kind = "ai_error" => t.sent[i].about = t.text.about

\* C23 witness: the error message of a failed step-2 narration named the
\* stored stock
C23_Witness ==
  \E s \in Slots :
    LET t == tasks[s] IN
    /\ t.kind = "ai_analysis_step2" /\ Returned(s) /\ t.narr_failed
    /\ \E i \in 1..Len(t.sent) :
          /\ t.sent[i].kind = "ai_error"
          /\ t.sent[i].about = <<t.name.id, t.ticker>>

\* C24: when chat start has completed for a user, the user has a recorded
\* chat session that is new (it holds no turn of an earlier session) and
\* whose first turn is the persona text; and every recorded session was
\* seeded with the persona.
C24_SessionSeeded ==
  /\ \A s \in Slots :
       LET t == tasks[s] IN
       t.kind = "chat" /\ Returned(s) /\ Alone(s)
       => active_chats[t.user] = ChatEntry(<<"persona">>)
  /\ \A u \in Users :
       active_chats[u].open
       => Len(active_chats[u].hist) >= 1 /\ active_chats[u].hist[1] = "persona"

\* C25: when the model call of a chat send has failed, the handler goes on
\* to the apology and returns with the apology as its only message (no
\* error leaves it), and the user's chat session is recorded as it was
\* before the message.
C25_ChatFailureApology ==
  \A s \in Slots :
    LET t == tasks[s] IN
    t.chat_failed /\ Alone(s)
    => /\ t.pc \in {"send_apology", "done"}
       /\ Returned(s) => t.sent = <<Fixed("apology", BackButton)>>
       /\ active_chats[t.user].open
       /\ active_chats[t.user] = t.pre.chat

\* C25 witness: a chat send whose model call failed has returned after the
\* apology, the seeded session still recorded
C25_Witness ==
  \E s \in Slots :
    LET t == tasks[s] IN
    /\ t.chat_failed /\ Returned(s)
    /\ Kinds(t.sent) = {"apology"}
    /\ active_chats[t.user] = ChatEntry(<<"persona">>)

\* a free text routed to chat
IsChatSend(t) == t.kind = "text" /\ t.route = "chat"

\* when chat end has run, the user has no session; a chat send of a user
\* with no session calls no model and is answered by the prompt to start a
\* chat; a chat send reaches the model only with a session
C26_NoSession ==
  \A s \in Slots :
    LET t == tasks[s] IN
    /\ t.kind = "back_to_menu" /\ Returned(s) /\ Alone(s)
       => active_chats[t.user] = NoChat
    /\ IsChatSend(t) /\ Alone(s) /\ ~t.pre.chat.open
       => /\ t.llm = 0
          /\ t.pc \in {"send_please_start", "done", "raised"}
          /\ Returned(s) => t.sent = <<Fixed("please_start_chat", <<>>)>>
    /\ IsChatSend(t) /\ Alone(s) /\ (t.pc = "chat_llm" \/ t.llm > 0)
       => t.pre.chat.open

\* a session appears only as the result of a chat start
C26_OnlyChatStartOpens ==
  \A u \in Users :
    ~active_chats[u].open /\ active_chats'[u].open
    => \E s \in Slots :
         /\ tasks[s].user = u /\ At(s, "chat", "persona_llm")
         /\ tasks'[s].pc = "send_welcome"

\* C26: chat end discards the user's session and changes nothing when there
\* is none; while a user has no chat session, a free text routed to chat
\* issues no model call and is answered with the prompt to start a chat;
\* only a chat start records a session, so only a chat start makes sends
\* reach the model again.
C26_ChatNeedsSession == []C26_NoSession /\ [][C26_OnlyChatStartOpens]_vars

\* C26 witness: a free text of a user with no chat session was answered with
\* the prompt to start a chat, and no model call was made
C26_Witness ==
  \E s \in Slots :
    LET t == tasks[s] IN
    /\ IsChatSend(t) /\ Returned(s) /\ ~t.pre.chat.open
    /\ Kinds(t.sent) = {"please_start_chat"} /\ t.llm = 0
    /\ ~active_chats[t.user].open

\* C27: chat start and chat send leave the user's mode and stock data as
\* they were; the analysis prompt, ticker resolution and the steps 2, 3 and
\* final leave the user's chat session as it was; a handler that changed
\* both the chat session and the analysis session is back-to-menu.
C27_ChatAndAnalysisIndependent ==
  \A s \in Slots :
    LET t == tasks[s]
        u == t.user
    IN
    t.kind # "idle" /\ Alone(s)
    => /\ t.kind = "chat" \/ IsChatSend(t)
          => user_states[u] = t.pre.mode /\ user_stock_data[u] = t.pre.data
       /\ t.kind = "analyze" \/ IsPipeline(t)
          => active_chats[u] = t.pre.chat
       /\ /\ active_chats[u] # t.pre.chat
          /\ user_states[u] # t.pre.mode \/ user_stock_data[u] # t.pre.data
          => t.kind = "back_to_menu"

\* C27 witness: step 2 has returned for a user whose chat session, with a
\* turn in it, is recorded as before
C27_Witness ==
  \E s \in Slots :
    LET t == tasks[s] IN
    /\ t.kind = "ai_analysis_step2" /\ Returned(s) /\ t.llm = 1
    /\ t.pre.chat = ChatEntry(<<"persona", "turn">>)
    /\ active_chats[t.user] = t.pre.chat

\* C28: no failure of an external call leaves a handler as an exception,
\* and the state updates that follow the call are applied: a final step
\* that got past its check has, when the handler is over, removed the
\* stock data of the user.
C28_NoFailureEscapes ==
  \A s \in Slots :
    LET t == tasks[s] IN
    /\ t.pc # "raised"
    /\ /\ t.kind = "final_analysis_step" /\ Alone(s)
       /\ t.pc \in {"done", "raised"} /\ ~t.missing
       => ~user_stock_data[t.user].present

\* the awaits of a pipeline handler that come before its narration
BeforeNarration ==
  {"send_analyzing", "send_generating", "send_fetching", "send_analyzing_ai",
   "send_final_wait", "step_llm"}

\* C29: a pipeline handler issues at most one market-data fetch and at most
\* one narration call; after a failed fetch it issues no narration and only
\* reports the error, and after a failed narration it is past every fetch
\* and narration.
C29_NoRetries ==
  \A s \in Slots :
    LET t == tasks[s] IN
    IsPipeline(t)
    => /\ t.fetches <= 1 /\ t.llm <= 1
       /\ t.fetch_failed
          => /\ t.fetches = 1 /\ t.llm = 0
             /\ t.pc \in {"send_fetch_error", "done", "raised"}
       /\ t.narr_failed
          => t.llm = 1 /\ t.pc \notin BeforeNarration

\* C29 witness: step 3 has returned after its fetch failed, with one fetch
\* and no narration
C29_Witness ==
  \E s \in Slots :
    LET t == tasks[s] IN
    /\ t.kind = "ai_analysis_step3" /\ Returned(s)
    /\ t.fetch_failed /\ t.fetches = 1 /\ t.llm = 0
    /\ Kinds(t.sent) \cap {"fetch_error"} # {}

\* the handler in slot s, once it has returned, has delivered a message of
\* this kind
Reports(s, kind) == Returned(s) => kind \in Kinds(tasks[s].sent)

\* C30: a handler that met a failed ticker resolution or market-data fetch,
\* a failed narration, a failed chat model call or a missing stock context
\* is on its way to the message that reports it, and has delivered that
\* message when it returns; a market report ends with the report or the
\* text of its error; no handler returns without a message.
C30_FailureReported ==
  \A s \in Slots :
    LET t == tasks[s] IN
    /\ IsPipeline(t) /\ t.fetch_failed
       => /\ t.pc \in {"send_fetch_error", "done", "raised"}
          /\ Reports(s, "fetch_error")
    /\ IsPipeline(t) /\ t.narr_failed => Reports(s, "ai_error")
    /\ t.chat_failed => Reports(s, "apology")
    /\ t.missing
       => /\ t.pc \in {"send_missing", "done", "raised"}
          /\ Reports(s, "missing_context")
    /\ t.kind = "markets" /\ Returned(s)
       => Kinds(t.sent) \cap {"market_failure", "market_report"} # {}
    /\ Returned(s) => t.sent # <<>>

\* C30 witness: a step 3 that found no stored stock has returned after the
\* message that says so
C30_Witness ==
  \E s \in Slots :
    LET t == tasks[s] IN
    /\ t.kind = "ai_analysis_step3" /\ Returned(s) /\ t.missing
    /\ Kinds(t.sent) = {"missing_context"}

\* the final action's handler makes no lookup and, past its check, one
\* narration call, whose result is tagged with the stored name and ticker
FinalStepFrame ==
  \A s \in Slots :
    LET t == tasks[s] IN
    t.kind = "final_analysis_step"
    => /\ t.fetches = 0
       /\ t.missing => t.llm = 0
       /\ Returned(s) /\ ~t.missing => t.llm = 1
       /\ t.llm = 1 /\ Alone(s)
          => /\ t.res.name = t.pre.data.name
             /\ t.res.ticker = t.pre.data.ticker

\* C31: the handler of the final action makes no market-data lookup; when it
\* got past its check and returns it has made exactly one narration call,
\* and the text of that call is built from the name and the ticker stored
\* for the user.
C31_FinalStepNoFetch ==
  /\ FinalStepFrame
  /\ \A s \in Slots :
       LET t == tasks[s] IN
       t.kind = "final_analysis_step" /\ t.llm = 1 /\ Alone(s)
       => /\ t.prompt.stock_name = t.pre.data.name.id
          /\ t.prompt.ticker = t.pre.data.ticker

\* C32: with any of the three secrets missing the process ends with a
\* diagnostic before the receive loop starts: the loop runs, and an update
\* is handled, only with all three set, and a process that has ended for a
\* missing secret has logged why.
C32_MissingSecretAborts ==
  /\ process.pc = "polling" => process.secrets = Secrets
  /\ (\E s \in Slots : tasks[s].kind # "idle") => process.secrets = Secrets
  /\ process.pc = "exited" => process.log # <<>>

\* C33: a lookup of a ticker whose overview has no name, or whose source
\* failed, comes back to the handler as an error result: the handler goes on
\* to report the error (it is not left by an exception of the lookup), and
\* no stock data of that lookup is held by the handler or stored.
C33_LookupFailureIsAValue ==
  \A s \in Slots :
    LET t == tasks[s] IN
    IsStep1(t) /\ t.fetches = 1 /\ t.fetch_failed /\ Alone(s)
    => /\ t.pc \in {"send_fetch_error", "done", "raised"}
       /\ t.pc = "raised" => "fetch_error" \notin Kinds(t.sent)
       /\ t.name = NoName
       /\ t.llm = 0
       /\ user_stock_data[t.user] = t.pre.data

\* C33 witness: a lookup failed, the handler awaits the reply that reports
\* the error and nothing was stored
C33_Witness ==
  \E s \in Slots :
    LET t == tasks[s] IN
    /\ IsStep1(t) /\ t.fetch_failed /\ t.pc = "send_fetch_error"
    /\ t.ticker = <<"A", ".", "N", "S">>
    /\ ~user_stock_data[t.user].present

\* C34: every handler that was dispatched finishes (it returns, or a call
\* of its own raises), given that each call it awaits returns or fails; it
\* waits for no other handler and for no session entry.
C34_HandlersFinish == \A s \in Slots : InFlight(s) ~> Free(s)

\* C34 witness: a handler has returned after several awaits, the slices of a
\* long text among them
C34_Witness ==
  \E s \in Slots :
    /\ tasks[s].kind \in StepKinds /\ Returned(s)
    /\ Len(tasks[s].sent) >= 3

\* the three per-user entries of a user
Entries(u) == <<user_states[u], user_stock_data[u], active_chats[u]>>

\* C35: per-user isolation under any interleaving of handlers: a step that
\* creates, changes or removes the mode, the stock data or the chat session
\* of a user is a step of a handler of that user; the handlers of another
\* user never touch them.  (The quote cache is the only table not keyed by
\* the user.)
C35_PerUserIsolation ==
  [][\A u \in Users :
       Entries(u)' # Entries(u)
       => \E s \in Slots : tasks'[s] # tasks[s] /\ tasks'[s].user = u]_vars

\* C35 witness: a back-to-menu of the first user has cleared that user's
\* entries while a handler of the second user is in flight, and the second
\* user's entries are all still there
C35_Witness ==
  /\ tasks[1].kind = "back_to_menu" /\ Returned(1) /\ tasks[1].user = "u1"
  /\ tasks[1].pre.data.present /\ ~user_stock_data["u1"].present
  /\ InFlight(2) /\ tasks[2].user = "u2"
  /\ user_states["u2"] = "analyze_mode"
  /\ user_stock_data["u2"].present /\ active_chats["u2"].open

\* the handlers a handler met in flight when it was dispatched
MetTicker(t) == \E m \in t.met : m.kind = "text" /\ m.route = "ticker"
MetPersona(t) == \E m \in t.met : m.kind = "chat" /\ m.pc = "persona_llm"
MetFinal(t) ==
  \E m \in t.met : /\ m.kind = "final_analysis_step"
                    /\ m.pc \in {"step_llm", "send_result", "send_chunk"}

Prompted(t) == t.kind = "analyze" /\ t.pc \in {"send_prompt", "done"}
\* a step 2, step 3 or final task that has passed its check of the stock data
PastCheck(t) ==
  /\ t.kind \in StepKinds
  /\ t.pc \notin {"cb_answer", "answer2", "raised"}

\* C39: requesting analysis is accepted in every state: the command and the
\* button are handled whatever the session holds; the handler sets the mode
\* to analyze_mode and leaves the stock data and the chat session as they
\* were, so a step 2, step 3 or final action handled while the ticker is
\* awaited works on the stock resolved before.
C39_AnalyzeAcceptedAnywhere ==
  /\ Sequential
     => /\ ENABLED cmd_analyze(1, "u1")
        /\ ENABLED button_callback(1, "u1", "analyze")
  /\ \A s \in Slots :
       LET t == tasks[s]
           u == t.user
       IN
       Alone(s)
       => /\ Prompted(t)
             => /\ user_states[u] = "analyze_mode"
                /\ user_stock_data[u] = t.pre.data
                /\ active_chats[u] = t.pre.chat
          /\ PastCheck(t) /\ t.pre.mode = "analyze_mode" /\ t.pre.data.present
             => /\ ~t.missing
                /\ t.ticker = t.pre.data.ticker
                /\ t.name = t.pre.data.name

\* C39 witness: step 3 has narrated the stored stock for a user whose mode
\* was analyze_mode when the action arrived although step 2 had been done:
\* analysis was requested again in between
C39_Witness ==
  \E s \in Slots :
    LET t == tasks[s] IN
    /\ t.kind = "ai_analysis_step3" /\ Returned(s) /\ t.llm = 1
    /\ t.pre.mode = "analyze_mode" /\ t.pre.data.present
    /\ 2 \in steps_done[t.user]
    /\ t.ticker = t.pre.data.ticker

\* C40: the mode of a user goes from analyze_mode to none only when step 2
\* runs to its end or on back-to-menu: a successful step 1, a step 2 whose
\* fetch failed, step 3 and the final step leave the mode the user had; so
\* a text that arrives with the mode still analyze_mode is resolved as a
\* ticker and, on success, replaces the stored stock.
C40_ModeLeftOnlyByStep2OrMenu ==
  \A s \in Slots :
    LET t == tasks[s]
        u == t.user
    IN
    t.kind # "idle" /\ Alone(s)
    => /\ t.pre.mode = "analyze_mode" /\ user_states[u] # "analyze_mode"
          => \/ t.kind = "back_to_menu"
             \/ /\ t.kind = "ai_analysis_step2" /\ Returned(s)
                /\ ~t.missing /\ ~t.fetch_failed
       /\ \/ IsStep1(t)
          \/ t.kind \in {"ai_analysis_step3", "final_analysis_step"}
          \/ t.kind = "ai_analysis_step2" /\ (t.fetch_failed \/ t.missing)
          => user_states[u] = t.pre.mode
       /\ t.kind = "text" /\ t.pre.mode = "analyze_mode"
          => /\ t.route = "ticker"
             /\ t.name # NoName
                => user_stock_data[u] = StockData(normalize_ticker(t.raw), t.name)

\* C40 witness: with a stock stored by a successful step 1 and the mode
\* still analyze_mode, the next text was resolved as another ticker and
\* replaced the stored stock
C40_Witness ==
  \E s \in Slots :
    LET t == tasks[s] IN
    /\ IsStep1(t) /\ Returned(s)
    /\ t.pre.mode = "analyze_mode" /\ t.pre.data.present
    /\ t.pre.data.ticker # t.ticker
    /\ user_states[t.user] = "analyze_mode"
    /\ user_stock_data[t.user].ticker = t.ticker

====
